---- MODULE Spec2Model ----
(***************************************************************************)
(* Reconciliation and classification engine of the Swift Trip Log         *)
(* dashboard (swift_trip_log_dashboard.py).                                *)
(*                                                                         *)
(* Text values are sequences of one-character strings, so that upper-      *)
(* casing, trimming, substring tests and key concatenation are computed    *)
(* as Python computes them.  SQL NULL / None / NaN is the value NULL.      *)
(* Dates are day numbers of the year 2024 (1 = 2024-01-01); NaT is 0.  A    *)
(* timestamp is a date with an hour of the day.                            *)
(***************************************************************************)
EXTENDS Integers, Sequences, FiniteSets, TLC

(***************************************************************************)
(* Text primitives                                                         *)
(***************************************************************************)
NULL == <<"NULL">>

Ascii ==
  <<" ","!","\"","#","$","%","&","'","(",")","*","+",",","-",".","/",
    "0","1","2","3","4","5","6","7","8","9",":",";","<","=",">","?",
    "@","A","B","C","D","E","F","G","H","I","J","K","L","M","N","O",
    "P","Q","R","S","T","U","V","W","X","Y","Z","[","\\","]","^","_",
    "GRAVE","a","b","c","d","e","f","g","h","i","j","k","l","m","n","o",
    "p","q","r","s","t","u","v","w","x","y","z","{","|","}","~">>

\* Position 65 (code 96, the grave accent) is a filler: the character is not
\* used by any text of the model.
AsciiSet == {Ascii[i] : i \in 1..Len(Ascii)}

\* Code point of a character (ord): Ascii[1] is the space, code 32.
Ord == [c \in AsciiSet |-> 31 + (CHOOSE i \in 1..Len(Ascii) : Ascii[i] = c)]

\* str.upper() on one character: a..z (97..122) map to A..Z.
UpperChar == [c \in AsciiSet |->
               IF Ord[c] >= 97 /\ Ord[c] <= 122 THEN Ascii[Ord[c] - 32 - 31] ELSE c]

\* str.upper()
Upper(s) == [i \in 1..Len(s) |-> UpperChar[s[i]]]

IsSpace(c) == c = " "

RECURSIVE LStrip(_)
LStrip(s) == IF s # <<>> /\ IsSpace(Head(s)) THEN LStrip(Tail(s)) ELSE s

RECURSIVE RStrip(_)
RStrip(s) == IF s # <<>> /\ IsSpace(s[Len(s)])
             THEN RStrip(SubSeq(s, 1, Len(s) - 1)) ELSE s

\* str.strip()
Strip(s) == RStrip(LStrip(s))

\* s.startswith(p)
StartsWith(s, p) == Len(p) <= Len(s) /\ SubSeq(s, 1, Len(p)) = p

\* sub in s
Contains(sub, s) ==
  \E i \in 0..(Len(s) - Len(sub)) : \A k \in 1..Len(sub) : s[i + k] = sub[k]

\* Python ordering of two strings by code point (s < t).
RECURSIVE StrLess(_, _)
StrLess(s, t) ==
  IF t = <<>> THEN FALSE
  ELSE IF s = <<>> THEN TRUE
  ELSE IF Head(s) = Head(t) THEN StrLess(Tail(s), Tail(t))
  ELSE Ord[Head(s)] < Ord[Head(t)]

\* pd.isna(x)
IsNa(x) == x = NULL

\* Series.str.upper().str.strip(); missing values stay missing.
UpperStrip(x) == IF IsNa(x) THEN NULL ELSE Strip(Upper(x))

\* Series + '_' + Series; a missing operand makes the result missing.
KeyJoin(a, b) == IF IsNa(a) \/ IsNa(b) THEN NULL ELSE a \o <<"_">> \o b

(***************************************************************************)
(* Dates                                                                   *)
(***************************************************************************)
NaT == 0

\* Days before the first day of each month of 2024, and of the month after.
CumDays == <<0, 31, 60, 91, 121, 152, 182, 213, 244, 274, 305, 335, 366>>

MonthOf(d) == CHOOSE m \in 1..12 : CumDays[m] < d /\ d <= CumDays[m + 1]
DayOf(d) == d - CumDays[MonthOf(d)]
\* selected_month.replace(day=1)
MonthStart(m) == CumDays[m] + 1
\* (month_start + relativedelta(months=1)) - timedelta(days=1)
MonthEnd(m) == CumDays[m + 1]
\* datetime.date(2024, m, d) as a day number
Date(m, d) == CumDays[m] + d

Digit == <<"0","1","2","3","4","5","6","7","8","9">>
TwoDigits(n) == <<Digit[(n \div 10) + 1], Digit[(n % 10) + 1]>>

\* Series.astype(str) of a date column: YYYY-MM-DD, or NaT.
DateStr(d) ==
  IF d = NaT THEN <<"N","a","T">>
  ELSE <<"2","0","2","4","-">> \o TwoDigits(MonthOf(d)) \o <<"-">> \o TwoDigits(DayOf(d))

(***************************************************************************)
(* Gazetteer classifier and record normalizer (pure functions)             *)
(***************************************************************************)
RSAI == <<"R",".","s","a","i"," ","L","o","g","i","s","t","i","c","s"," ","I","n","d","i","a"," ","P","v","t","."," ","L","t","d",".">>
MAHINDRA == <<"M","A","H","I","N","D","R","A"," ","L","O","G","I","S","T","I","C","S"," ","L","T","D",".">>
MARKET_LOAD == <<"M","a","r","k","e","t"," ","L","o","a","d">>
JOHN_DEERE == <<"J","o","h","n"," ","D","e","e","r","e"," ","I","n","d","i","a"," ","P","r","i","v","a","t","e"," ","L","i","m","i","t","e","d">>

\* The vendor_mappings dictionary, as <<billing_party, display name>> pairs.
vendor_mappings == <<
  <<RSAI, RSAI>>,
  <<<<"K","w","i","c","k"," ","L","i","v","i","n","g"," ","P","r","i","v","a","t","e"," ","L","i","m","i","t","e","d">>, <<"K","w","i","c","k"," ","L","i","v","i","n","g"," ","P","r","i","v","a","t","e"," ","L","i","m","i","t","e","d">>>>,
  <<<<"S","K","O","D","A"," ","A","U","T","O"," ","V","o","l","k","s","w","a","g","e","n","I","n","d","i","a"," ","P","v","t","."," ","L","t","d"," ","-"," ","P","u","n","e">>, <<"S","K","O","D","A"," ","A","U","T","O"," ","V","o","l","k","s","w","a","g","e","n","I","n","d","i","a"," ","P","v","t","."," ","L","t","d"," ","-"," ","P","u","n","e">>>>,
  <<<<"G","l","o","v","i","s"," ","I","n","d","i","a"," ","P","v","t"," ","L","t","d"," ","-"," ","K","I","A">>, <<"G","l","o","v","i","s"," ","I","n","d","i","a"," ","P","v","t"," ","L","t","d"," ","-"," ","K","I","A">>>>,
  <<<<"G","l","o","v","i","s"," ","I","n","d","i","a"," ","P","v","t"," ","L","t","d"," ","-"," ","H","y","u","n","d","a","i">>, <<"G","l","o","v","i","s"," ","I","n","d","i","a"," ","P","v","t"," ","L","t","d"," ","-"," ","H","y","u","n","d","a","i">>>>,
  <<<<"H","o","n","d","a"," ","C","a","r","s"," ","I","n","d","i","a"," ","L","t","d"," ","-"," ","T","a","p","u","k","e","r","a">>, <<"H","o","n","d","a"," ","C","a","r","s"," ","I","n","d","i","a"," ","L","t","d"," ","-"," ","T","a","p","u","k","e","r","a">>>>,
  <<<<"H","o","n","d","a"," ","C","a","r","s"," ","I","n","d","i","a"," ","L","t","d"," ","-"," ","N","o","i","d","a">>, <<"H","o","n","d","a"," ","N","o","i","d","a">>>>,
  <<<<"T","a","t","a"," ","M","o","t","o","r","s"," ","P","a","s","s","e","n","g","e","r"," ","V","e","h","i","c","l","e","s"," ","L","i","m","i","t","e","d"," ","-"," ","P","u","n","e">>, <<"T","a","t","a"," ","M","o","t","o","r","s"," ","P","v","t"," ","L","t","d"," ","-"," ","P","u","n","e">>>>,
  <<<<"T","a","t","a"," ","M","o","t","o","r","s"," ","P","a","s","s","e","n","g","e","r"," ","V","e","h","i","c","l","e","s"," ","L","i","m","i","t","e","d"," ","-"," ","S","a","n","a","n","d">>, <<"T","a","t","a"," ","M","o","t","o","r","s"," ","P","v","t"," ","L","t","d"," ","-"," ","S","a","n","a","n","d">>>>,
  <<<<"T","a","t","a"," ","P","a","s","s","e","n","g","e","r"," ","E","l","e","c","t","r","i","c"," ","M","o","b","i","l","i","t","y"," ","L","i","m","i","t","e","d"," ","-"," ","P","u","n","e">>, <<"T","a","t","a"," ","M","o","t","o","r","s"," ","P","v","t"," ","L","t","d"," ","-"," ","P","u","n","e">>>>,
  <<<<"J","S","W"," ","M","G"," ","M","o","t","o","r"," ","I","n","d","i","a"," ","P","r","i","v","a","t","e"," ","L","i","m","i","t","e","d">>, <<"J","S","W"," ","M","G"," ","M","o","t","o","r"," ","I","n","d","i","a"," ","P","r","i","v","a","t","e"," ","L","i","m","i","t","e","d">>>>,
  <<<<"V","A","L","U","E","D","R","I","V","E"," ","T","E","C","H","N","O","L","O","G","I","E","S"," ","P","R","I","V","A","T","E"," ","L","I","M","I","T","E","D","(","S","P","I","N","N","Y",")"," ","B","L","R">>, <<"V","A","L","U","E","D","R","I","V","E"," ","T","E","C","H","N","O","L","O","G","I","E","S"," ","P","R","I","V","A","T","E"," ","L","I","M","I","T","E","D","(","S","P","I","N","N","Y",")">>>>,
  <<<<"M","/","S"," ","M","o","h","a","n"," ","L","o","g","i","s","t","i","c","s"," ","P","r","i","v","a","t","e"," "," ","L","i","m","i","t","e","d">>, <<"M","/","S"," ","M","o","h","a","n"," ","L","o","g","i","s","t","i","c","s"," ","P","r","i","v","a","t","e"," ","L","i","m","i","t","e","d">>>>,
  <<<<"S","A","I"," ","A","U","T","O"," ","C","O","M","P","O","N","E","N","T","S"," ","P","V","T",".","L","T","D">>, <<"S","A","I"," ","A","U","T","O"," ","C","O","M","P","O","N","E","N","T","S"," ","P","V","T",".","L","T","D">>>>,
  <<<<"J","o","h","n"," ","D","e","e","r","e"," ","i","n","d","i","a"," ","P","r","i","v","a","t","e"," ","L","i","m","i","t","e","d">>, JOHN_DEERE>>,
  <<<<"G","l","o","v","i","s"," ","I","n","d","i","a"," ","P","v","t"," ","L","t","d"," ","-"," ","P","u","n","e">>, <<"G","l","o","v","i","s"," ","I","n","d","i","a"," ","P","v","t"," ","L","t","d"," ","-"," ","P","u","n","e">>>>,
  <<<<"s","h","i","v"," ","a","n","s","h"," ","l","o","g","i","s","t","i","c","s">>, MARKET_LOAD>>,
  <<<<"D","e","l","h","i"," ","H","u","b","l","i"," ","C","a","r","g","o"," ","L","o","g","i","s","t","i","c","s"," ","P","v","t","."," ","L","t","d",".">>, MARKET_LOAD>> >>

\* dict.get(key, default) on a sequence of pairs with distinct keys.
DictGet(d, key, default) ==
  IF \E i \in 1..Len(d) : d[i][1] = key
  THEN d[CHOOSE i \in 1..Len(d) : d[i][1] = key][2]
  ELSE default

\* A mapping that tests the origin as it is stored, without upper-casing it
\* (C16 must not hold of it).
get_vendor_client_mapping_case_sensitive(billing_party, origin) ==
  IF IsNa(billing_party) \/ billing_party = <<>> THEN NULL
  ELSE IF billing_party = MAHINDRA THEN
    LET origin_str == IF origin # <<>> /\ ~IsNa(origin) THEN Strip(origin) ELSE <<>>
    IN  IF Contains(<<"C","H","A","K","A","N">>, origin_str) THEN <<"M","a","h","i","n","d","r","a"," ","L","o","g","i","s","t","i","c","s"," ","L","t","d"," ","-"," ","C","h","a","k","a","n">>
        ELSE IF Contains(<<"N","A","S","H","I","K">>, origin_str) THEN <<"M","a","h","i","n","d","r","a"," ","L","o","g","i","s","t","i","c","s"," ","L","t","d"," ","-"," ","N","a","s","h","i","k">>
        ELSE IF Contains(<<"H","A","R","I","D","W","A","R">>, origin_str) THEN <<"M","a","h","i","n","d","r","a"," ","L","o","g","i","s","t","i","c","s"," ","L","t","d"," ","-"," ","H","a","r","i","d","w","a","r">>
        ELSE <<"M","A","H","I","N","D","R","A"," ","L","O","G","I","S","T","I","C","S"," ","L","T","D">>
  ELSE DictGet(vendor_mappings, billing_party, MARKET_LOAD)

\* A mapping that defaults to the billing party itself (C17 must not hold
\* of it).
get_vendor_client_mapping_default_self(billing_party, origin) ==
  IF IsNa(billing_party) \/ billing_party = <<>> THEN NULL
  ELSE IF billing_party = MAHINDRA THEN
    LET origin_str == IF origin # <<>> /\ ~IsNa(origin) THEN Strip(origin) ELSE <<>>
        origin_upper == Upper(origin_str)
    IN  IF Contains(<<"C","H","A","K","A","N">>, origin_upper) THEN <<"M","a","h","i","n","d","r","a"," ","L","o","g","i","s","t","i","c","s"," ","L","t","d"," ","-"," ","C","h","a","k","a","n">>
        ELSE IF Contains(<<"N","A","S","H","I","K">>, origin_upper) THEN <<"M","a","h","i","n","d","r","a"," ","L","o","g","i","s","t","i","c","s"," ","L","t","d"," ","-"," ","N","a","s","h","i","k">>
        ELSE IF Contains(<<"H","A","R","I","D","W","A","R">>, origin_upper) THEN <<"M","a","h","i","n","d","r","a"," ","L","o","g","i","s","t","i","c","s"," ","L","t","d"," ","-"," ","H","a","r","i","d","w","a","r">>
        ELSE <<"M","A","H","I","N","D","R","A"," ","L","O","G","I","S","T","I","C","S"," ","L","T","D">>
  ELSE DictGet(vendor_mappings, billing_party, billing_party)

\* Map a vendor billing_party (and origin) to the display party of the
\* summary; NULL (None) when the billing party is missing or empty.
get_vendor_client_mapping(billing_party, origin) ==
  IF IsNa(billing_party) \/ billing_party = <<>> THEN NULL
  ELSE IF billing_party = MAHINDRA THEN
    LET origin_str == IF origin # <<>> /\ ~IsNa(origin) THEN Strip(origin) ELSE <<>>
        origin_upper == Upper(origin_str)
    IN  IF Contains(<<"C","H","A","K","A","N">>, origin_upper) THEN <<"M","a","h","i","n","d","r","a"," ","L","o","g","i","s","t","i","c","s"," ","L","t","d"," ","-"," ","C","h","a","k","a","n">>
        ELSE IF Contains(<<"N","A","S","H","I","K">>, origin_upper) THEN <<"M","a","h","i","n","d","r","a"," ","L","o","g","i","s","t","i","c","s"," ","L","t","d"," ","-"," ","N","a","s","h","i","k">>
        ELSE IF Contains(<<"H","A","R","I","D","W","A","R">>, origin_upper) THEN <<"M","a","h","i","n","d","r","a"," ","L","o","g","i","s","t","i","c","s"," ","L","t","d"," ","-"," ","H","a","r","i","d","w","a","r">>
        ELSE <<"M","A","H","I","N","D","R","A"," ","L","O","G","I","S","T","I","C","S"," ","L","T","D">>
  ELSE DictGet(vendor_mappings, billing_party, MARKET_LOAD)

market_load_parties == {
  <<"A","L","L"," ","I","N","D","I","A"," ","T","R","P","T",".">>,
  <<"B","A","L","A","J","I"," ","C","A","R","G","O"," ","C","A","R","R","I","E","R"," ","(","I","N","D","I","A",")">>,
  <<"D","O","O","R"," ","T","O"," ","D","O","O","R"," ","R","E","L","A","T","I","O","N","S"," ","L","O","G","I","S","T","I","C","S">>,
  <<"G","O","L","D","E","N"," ","T","R","A","N","S","P","O","R","T">>,
  <<"M",".","Y","."," ","T","R","A","N","S","P","O","R","T"," ","C","O","M","P","A","N","Y"," ","P","R","I","V","A","T","E"," ","L","I","M","I","T","E","D">>,
  <<"R","A","M","E","S","H"," ","C","A","R"," ","C","A","R","R","I","E","R">>,
  <<"S","H","R","I"," ","O","M"," ","L","O","G","I","S","T","I","C","S">>,
  <<"Y","A","T","I"," ","T","R","A","N","S"," ","L","O","G","I","S","T","I","C","S"," ","L","L","P">> }

\* [p.upper() for p in market_load_parties]
market_load_upper == {Upper(p) : p \in market_load_parties}

\* A normalizer that takes a name for a Market Load alias when it contains
\* one (C15 must not hold of it).
normalize_party_name_substring(party_name) ==
  IF IsNa(party_name) \/ party_name = <<>> THEN party_name
  ELSE LET party_upper == Strip(Upper(party_name))
       IN  IF \E p \in market_load_upper : Contains(p, party_upper) THEN MARKET_LOAD
           ELSE IF party_upper = <<"V","A","L","U","E","D","R","I","V","E"," ","T","E","C","H","N","O","L","O","G","I","E","S"," ","P","R","I","V","A","T","E"," ","L","I","M","I","T","E","D","(","S","P","I","N","N","Y",")"," ","U","P">>
             THEN <<"V","A","L","U","E","D","R","I","V","E"," ","T","E","C","H","N","O","L","O","G","I","E","S"," ","P","R","I","V","A","T","E"," ","L","I","M","I","T","E","D","(","S","P","I","N","N","Y",")">>
           ELSE IF Contains(<<"J","O","H","N"," ","D","E","E","R","E">>, party_upper) THEN JOHN_DEERE
           ELSE party_name

\* Map party name variations to a single standardized display name.
normalize_party_name(party_name) ==
  IF IsNa(party_name) \/ party_name = <<>> THEN party_name
  ELSE LET party_upper == Strip(Upper(party_name))
       IN  IF party_upper \in market_load_upper THEN MARKET_LOAD
           ELSE IF party_upper = <<"V","A","L","U","E","D","R","I","V","E"," ","T","E","C","H","N","O","L","O","G","I","E","S"," ","P","R","I","V","A","T","E"," ","L","I","M","I","T","E","D","(","S","P","I","N","N","Y",")"," ","U","P">>
             THEN <<"V","A","L","U","E","D","R","I","V","E"," ","T","E","C","H","N","O","L","O","G","I","E","S"," ","P","R","I","V","A","T","E"," ","L","I","M","I","T","E","D","(","S","P","I","N","N","Y",")">>
           ELSE IF Contains(<<"J","O","H","N"," ","D","E","E","R","E">>, party_upper) THEN JOHN_DEERE
           ELSE party_name

\* The if/elif chain of get_client_category: <<keywords, category>> in order.
category_rules == <<
  <<{<<"H","O","N","D","A">>, <<"T","A","P","U","K","E","R","A">>}, <<"H","o","n","d","a">>>>,
  <<{<<"M","A","H","I","N","D","R","A">>, <<"M"," ","&"," ","M">>, <<"M","&","M">>, <<"M","S","T","C">>, <<"T","R","A","I","N"," ","L","O","A","D">>, <<"N","I","S","A","N">>}, <<"M"," ","&"," ","M">>>>,
  <<{<<"T","O","Y","O","T","A">>, <<"T","R","A","N","S","Y","S","T","E","M">>, <<"D","C"," ","M","O","V","E","M","E","N","T">>}, <<"T","o","y","o","t","a">>>>,
  <<{<<"S","K","O","D","A">>, <<"V","O","L","K","S","W","A","G","E","N">>}, <<"S","k","o","d","a">>>>,
  <<{<<"G","L","O","V","I","S">>}, <<"G","l","o","v","i","s">>>>,
  <<{<<"T","A","T","A">>}, <<"T","a","t","a">>>>,
  <<{<<"J","O","H","N"," ","D","E","E","R","E">>}, <<"J","o","h","n"," ","D","e","e","r","e">>>>,
  <<{<<"M","A","R","K","E","T"," ","L","O","A","D">>}, <<"M","a","r","k","e","t"," ","L","o","a","d">>>>,
  <<{<<"V","A","L","U","E","D","R","I","V","E">>, <<"S","P","I","N","N","Y">>}, <<"S","p","i","n","n","y">>>>,
  <<{<<"J","S","W">>, <<"M","G"," ","M","O","T","O","R">>}, <<"J","S","W"," ","M","G">>>>,
  <<{<<"R",".","S","A","I">>, <<"R","S","A","I">>}, <<"R",".","s","a","i">>>>,
  <<{<<"M","O","H","A","N"," ","L","O","G","I","S","T","I","C","S">>}, <<"M","o","h","a","n"," ","L","o","g","i","s","t","i","c","s">>>>,
  <<{<<"S","A","I"," ","A","U","T","O">>}, <<"S","A","I"," ","A","u","t","o">>>>,
  <<{<<"K","W","I","C","K">>}, <<"K","w","i","c","k">>>> >>

RuleMatches(rule, party_upper) == \E kw \in rule[1] : Contains(kw, party_upper)

\* A chain whose else branch returns the name (C11 must not hold of it).
first_match_name_default(k, party_upper) ==
  LET M == {j \in k..Len(category_rules) : RuleMatches(category_rules[j], party_upper)}
  IN  IF M = {} THEN party_upper
      ELSE category_rules[CHOOSE j \in M : \A i \in M : j <= i][2]

\* A chain in which the last matching rule wins (C12 must not hold of it).
first_match_last(k, party_upper) ==
  LET M == {j \in k..Len(category_rules) : RuleMatches(category_rules[j], party_upper)}
  IN  IF M = {} THEN <<"O","t","h","e","r">>
      ELSE category_rules[CHOOSE j \in M : \A i \in M : j >= i][2]

\* The category of the first rule from rule number k on that matches.
RECURSIVE first_match(_, _)
first_match(k, party_upper) ==
  IF k > Len(category_rules) THEN <<"O","t","h","e","r">>
  ELSE IF RuleMatches(category_rules[k], party_upper) THEN category_rules[k][2]
  ELSE first_match(k + 1, party_upper)

\* Categorize a client by its display name; first matching rule wins.
get_client_category(party_name) ==
  IF IsNa(party_name) \/ party_name = <<>> THEN <<"O","t","h","e","r">>
  ELSE first_match(1, Upper(party_name))

\* The categories in the order in which get_client_category tests them
\* (C22 must not hold of it).
category_order_of_rules ==
  [k \in 1..Len(category_rules) |-> category_rules[k][2]] \o <<<<"O","t","h","e","r">>>>

\* category_order of target_vs_actual_fragment.
category_order == <<<<"H","o","n","d","a">>, <<"M"," ","&"," ","M">>, <<"T","o","y","o","t","a">>, <<"S","k","o","d","a">>, <<"G","l","o","v","i","s">>, <<"T","a","t","a">>,
                    <<"J","o","h","n"," ","D","e","e","r","e">>, <<"S","p","i","n","n","y">>, <<"J","S","W"," ","M","G">>, <<"R",".","s","a","i">>, <<"M","o","h","a","n"," ","L","o","g","i","s","t","i","c","s">>,
                    <<"S","A","I"," ","A","u","t","o">>, <<"K","w","i","c","k">>, <<"M","a","r","k","e","t"," ","L","o","a","d">>, <<"O","t","h","e","r">>>>

(***************************************************************************)
(* get_zone: the zone of a city token                                      *)
(***************************************************************************)
north_cities == <<
  <<"D","E","L","H","I">>, <<"N","O","I","D","A">>, <<"G","U","R","G","A","O","N">>, <<"G","U","R","U","G","R","A","M">>, <<"F","A","R","I","D","A","B","A","D">>, <<"G","H","A","Z","I","A","B","A","D">>, <<"G","H","A","I","Z","A","B","A","D">>,
  <<"G","R","E","A","T","E","R"," ","N","O","I","D","A">>, <<"C","H","A","N","D","I","G","A","R","H">>, <<"M","O","H","A","L","I">>, <<"P","A","N","C","H","K","U","L","A">>, <<"L","U","D","H","I","A","N","A">>, <<"J","A","L","A","N","D","H","A","R">>,
  <<"J","A","L","L","A","N","D","H","A","R">>, <<"A","M","R","I","T","S","A","R">>, <<"P","A","T","I","A","L","A">>, <<"B","A","T","H","I","N","D","A">>, <<"B","H","A","T","I","N","D","A">>, <<"F","I","R","O","Z","P","U","R">>,
  <<"F","E","R","O","Z","E","P","U","R">>, <<"H","O","S","H","I","A","R","P","U","R">>, <<"M","U","K","T","S","A","R">>, <<"S","A","N","G","R","U","R">>, <<"S","O","N","I","P","A","T">>, <<"P","A","N","I","P","A","T">>,
  <<"K","A","R","N","A","L">>, <<"K","U","R","U","K","S","H","E","T","R","A">>, <<"A","M","B","A","L","A">>, <<"H","I","S","A","R">>, <<"H","I","S","S","A","R">>, <<"R","O","H","T","A","K">>, <<"B","H","I","W","A","N","I">>,
  <<"S","I","R","S","A">>, <<"J","I","N","D">>, <<"K","A","I","T","H","A","L">>, <<"R","E","W","A","R","I">>, <<"N","A","R","N","A","U","L">>, <<"B","A","H","A","D","U","R","G","A","R","H">>, <<"D","H","A","R","U","H","E","R","A">>,
  <<"D","H","A","R","U","H","E","D","A">>, <<"M","A","N","E","S","A","R">>, <<"K","U","N","D","L","I">>, <<"P","A","L","W","A","L">>, <<"N","U","H">>, <<"F","A","R","R","U","K","H","N","A","G","A","R">>,
  <<"F","A","R","U","K","H","N","A","G","A","R">>, <<"P","I","R","T","H","L","A">>, <<"S","O","H","N","A">>, <<"S","H","I","M","L","A">>, <<"M","A","N","D","I">>, <<"K","A","N","G","R","A">>, <<"K","U","L","L","U">>,
  <<"S","O","L","A","N">>, <<"U","N","A">>, <<"H","A","M","I","R","P","U","R">>, <<"P","A","O","N","T","A"," ","S","A","H","I","B">>, <<"J","A","M","M","U">>, <<"S","R","I","N","A","G","A","R">>, <<"K","A","T","H","U","A">>,
  <<"P","A","T","H","A","N","K","O","T">>, <<"R","O","P","A","R">>, <<"R","U","P","N","A","G","A","R">>, <<"K","A","P","U","R","T","H","A","L","A">>, <<"K","A","L","A","N","W","A","L","I">>, <<"D","E","H","R","A","D","U","N">>,
  <<"H","A","R","I","D","W","A","R">>, <<"R","O","O","R","K","E","E">>, <<"H","A","L","D","W","A","N","I">>, <<"R","U","D","R","A","P","U","R">>, <<"K","A","S","H","I","P","U","R">>, <<"T","A","P","U","K","E","R","A">>,
  <<"I","C","A","T"," ","M","A","N","E","S","A","R">>, <<"K","H","A","R","K","H","O","D","A">>, <<"B","I","L","A","S","P","U","R"," ","(","H","R",")">>, <<"Y","A","M","U","N","A","N","A","G","A","R">>, <<"B","H","I","W","A","D","I">>,
  <<"W","A","Z","I","R","P","U","R">>, <<"J","A","I","P","U","R">>, <<"J","O","D","H","P","U","R">>, <<"U","D","A","I","P","U","R">>, <<"K","O","T","A">>, <<"A","J","M","E","R">>, <<"B","I","K","A","N","E","R">>,
  <<"A","L","W","A","R">>, <<"B","H","I","L","W","A","R","A">>, <<"K","A","N","K","R","O","L","I">>, <<"S","I","K","A","R">>, <<"S","R","I","G","A","N","G","A","N","A","G","A","R">>, <<"S","R","I"," ","G","A","N","G","A","N","A","G","A","R">>,
  <<"B","H","A","R","A","T","P","U","R">>, <<"D","A","U","S","A">>, <<"J","H","U","N","J","H","U","N","U">>, <<"C","H","I","T","T","O","R","G","A","R","H">>, <<"T","O","N","K">>, <<"B","A","N","S","W","A","R","A">>, <<"N","A","G","A","U","R">>,
  <<"S","A","W","A","I"," ","M","A","D","H","O","P","U","R">>, <<"J","H","A","L","A","W","A","R">>, <<"N","E","E","M","U","C","H">>, <<"L","U","C","K","N","O","W">>, <<"K","A","N","P","U","R">>, <<"A","G","R","A">>,
  <<"V","A","R","A","N","A","S","I">>, <<"A","L","L","A","H","A","B","A","D">>, <<"P","R","A","Y","A","G","R","A","J">>, <<"G","O","R","A","K","H","P","U","R">>, <<"B","A","R","E","I","L","L","Y">>, <<"A","L","I","G","A","R","H">>,
  <<"M","O","R","A","D","A","B","A","D">>, <<"M","E","E","R","U","T">>, <<"S","A","H","A","R","A","N","P","U","R">>, <<"M","A","T","H","U","R","A">>, <<"F","I","R","O","Z","A","B","A","D">>, <<"E","T","A","W","A","H">>, <<"E","T","A","H">>,
  <<"M","A","I","N","P","U","R","I">>, <<"S","H","A","H","J","A","H","A","N","P","U","R">>, <<"S","A","H","A","N","J","A","N","P","U","R">>, <<"S","I","T","A","P","U","R">>, <<"H","A","R","D","O","I">>, <<"U","N","N","A","O">>,
  <<"R","A","E"," ","B","A","R","E","I","L","L","Y">>, <<"R","A","E","B","A","R","E","L","I">>, <<"R","A","I"," ","B","A","R","E","L","I">>, <<"S","U","L","T","A","N","P","U","R">>, <<"F","A","I","Z","A","B","A","D">>, <<"A","Z","A","M","G","A","R","H">>,
  <<"J","A","U","N","P","U","R">>, <<"M","I","R","Z","A","P","U","R">>, <<"R","O","B","E","R","T","S","G","A","N","J">>, <<"B","A","S","T","I">>, <<"G","O","N","D","A">>, <<"D","E","O","R","I","A">>,
  <<"B","U","L","A","N","D","S","H","A","H","A","R">>, <<"B","I","J","N","O","R">>, <<"M","U","Z","A","F","F","A","R","N","A","G","A","R">>, <<"M","U","Z","A","F","F","A","R"," ","N","A","G","A","R">>, <<"N","A","J","I","B","A","B","A","D">>,
  <<"L","A","K","H","I","M","P","U","R">>, <<"L","A","K","H","I","M","P","U","R"," ","K","H","E","R","I">>, <<"O","R","A","I">>, <<"J","H","A","N","S","I">>, <<"F","A","R","R","U","K","H","A","B","A","D">>, <<"P","R","A","T","A","P","G","A","R","H">>,
  <<"A","B","O","H","A","R">>, <<"K","U","N","D","A">>, <<"K","H","U","R","J","A">>, <<"K","A","R","H","A","L">>, <<"K","A","R","H","A","L","(","U","P",")">>, <<"K","O","T","V","A"," ","S","A","R","A","K">> >>

east_cities == <<
  <<"K","O","L","K","A","T","A">>, <<"H","O","W","R","A","H">>, <<"S","I","L","I","G","U","R","I">>, <<"A","S","A","N","S","O","L">>, <<"D","U","R","G","A","P","U","R">>, <<"K","H","A","R","A","G","P","U","R">>, <<"M","A","L","D","A">>,
  <<"B","A","R","D","H","A","M","A","N">>, <<"B","A","R","D","D","H","A","M","A","N">>, <<"B","A","R","D","H","M","A","N">>, <<"B","E","H","R","A","M","P","O","R","E">>, <<"B","E","R","H","A","M","P","O","R","E">>, <<"B","E","H","R","A","M","P","U","R">>,
  <<"C","O","O","C","H","B","E","H","A","R">>, <<"A","L","I","P","U","R","D","U","A","R">>, <<"B","U","N","I","Y","A","D","P","U","R">>, <<"M","O","G","R","A">>, <<"U","P","A","R","N","A","G","A","R">>, <<"P","A","T","N","A">>,
  <<"M","U","Z","A","F","F","A","R","P","U","R">>, <<"G","A","Y","A">>, <<"B","H","A","G","A","L","P","U","R">>, <<"D","A","R","B","H","A","N","G","A">>, <<"B","E","G","U","S","A","R","A","I">>, <<"C","H","A","P","R","A">>,
  <<"M","O","T","I","H","A","R","I">>, <<"P","U","R","N","I","A">>, <<"S","A","M","A","S","T","I","P","U","R">>, <<"B","I","H","A","R"," ","S","H","A","R","I","F">>, <<"S","A","H","A","R","S","A">>, <<"S","H","A","R","S","H","A">>,
  <<"S","I","W","A","N">>, <<"G","O","P","A","L","G","A","N","J">>, <<"G","O","P","A","L","G","U","N","J">>, <<"A","R","R","A","H">>, <<"A","R","A","H">>, <<"A","U","R","A","N","G","A","B","A","D"," ","(","B","I","H","A","R",")">>,
  <<"V","A","I","S","H","A","L","I">>, <<"K","I","S","H","A","N","G","A","N","J">>, <<"J","A","M","A","L","P","U","R">>, <<"A","N","I","S","A","B","A","D">>, <<"A","N","I","S","H","A","B","A","D">>, <<"S","H","E","R","G","H","A","T","I">>,
  <<"R","A","N","C","H","I">>, <<"J","A","M","S","H","E","D","P","U","R">>, <<"D","H","A","N","B","A","D">>, <<"B","O","K","A","R","O">>, <<"H","A","Z","A","R","I","B","A","G","H">>, <<"H","A","Z","A","R","I","B","A","G">>,
  <<"D","E","O","G","H","A","R">>, <<"D","E","O","G","A","R","H">>, <<"D","A","L","T","O","N","G","A","N","J">>, <<"B","A","R","H","I","(","J","H",")">>, <<"G","I","R","I","D","I","H">>, <<"B","H","U","B","A","N","E","S","H","W","A","R">>,
  <<"C","U","T","T","A","C","K">>, <<"R","O","U","R","K","E","L","A">>, <<"S","A","M","B","A","L","P","U","R">>, <<"B","E","R","H","A","M","P","U","R">>, <<"B","R","A","H","M","A","P","U","R">>, <<"B","A","L","A","S","O","R","E">>,
  <<"P","U","R","I">>, <<"A","N","G","U","L">>, <<"P","A","N","I","K","O","I","L","I">>, <<"K","E","O","N","J","H","A","R">>, <<"J","E","Y","P","O","R","E">>, <<"J","A","Y","P","O","R","E">>, <<"G","U","W","A","H","A","T","I">>,
  <<"T","E","Z","P","U","R">>, <<"D","I","B","R","U","G","A","R","H">>, <<"J","O","R","H","A","T">>, <<"N","A","G","A","O","N">>, <<"B","O","N","G","A","I","G","A","O","N">>, <<"N","O","R","T","H"," ","L","A","K","H","I","M","P","U","R">>,
  <<"S","I","L","C","H","A","R">>, <<"S","H","I","L","L","O","N","G">>, <<"G","A","N","G","T","O","K">>, <<"D","I","M","A","P","U","R">>, <<"N","A","H","A","R","L","A","G","U","N">>, <<"W","E","S","T"," ","C","H","A","M","P","A","R","A","N">>,
  <<"A","G","A","R","T","A","L","A">>, <<"I","M","P","H","A","L">>, <<"P","O","R","T"," ","B","L","A","I","R">>, <<"R","A","I","P","U","R">>, <<"B","I","L","A","S","P","U","R">>, <<"B","H","I","L","A","I">>, <<"K","O","R","B","A">>,
  <<"R","A","J","N","A","N","D","G","A","O","N">>, <<"D","U","R","G">>, <<"J","A","G","D","A","L","P","U","R">>, <<"A","M","B","I","K","A","P","U","R">>, <<"K","A","N","K","E","R">> >>

west_cities == <<
  <<"M","U","M","B","A","I">>, <<"P","U","N","E">>, <<"N","A","S","H","I","K">>, <<"N","A","G","P","U","R">>, <<"A","U","R","A","N","G","A","B","A","D">>, <<"A","U","R","N","G","A","B","A","D","(","M","H",")">>,
  <<"A","U","R","A","N","G","A","B","A","D","(","M","A","H","A","R","A","S","H","T","R","A",")">>, <<"S","O","L","A","P","U","R">>, <<"K","O","L","H","A","P","U","R">>, <<"S","A","N","G","L","I">>, <<"S","A","T","A","R","A">>,
  <<"A","H","M","E","D","N","A","G","A","R">>, <<"T","H","A","N","E">>, <<"N","A","V","I"," ","M","U","M","B","A","I">>, <<"B","H","I","W","A","N","D","I">>, <<"P","A","N","V","E","L">>, <<"P","A","N","W","E","L">>, <<"V","A","S","A","I">>,
  <<"K","A","L","Y","A","N">>, <<"R","A","T","N","A","G","I","R","I">>, <<"L","A","T","U","R">>, <<"B","E","E","D">>, <<"J","A","L","G","A","O","N">>, <<"D","H","U","L","E">>, <<"A","K","O","L","A">>,
  <<"A","M","R","A","V","A","T","I">>, <<"C","H","A","N","D","R","A","P","U","R">>, <<"C","H","A","N","D","E","R","P","U","R">>, <<"M","A","L","E","G","A","O","N">>, <<"B","A","R","A","M","A","T","I">>, <<"S","A","N","G","A","M","N","E","R">>,
  <<"R","A","N","J","A","N","G","A","O","N">>, <<"U","D","G","I","R">>, <<"N","A","N","D","E","D">>, <<"A","H","M","E","D","A","B","A","D">>, <<"S","U","R","A","T">>, <<"V","A","D","O","D","A","R","A">>, <<"R","A","J","K","O","T">>,
  <<"B","H","A","V","N","A","G","A","R">>, <<"J","A","M","N","A","G","A","R">>, <<"J","U","N","A","G","A","D","H">>, <<"G","A","N","D","H","I","D","H","A","M">>, <<"B","H","U","J">>, <<"A","N","A","N","D">>, <<"M","E","H","S","A","N","A">>,
  <<"M","O","R","B","I">>, <<"V","A","P","I">>, <<"N","A","V","S","A","R","I">>, <<"B","H","A","R","U","C","H">>, <<"A","N","K","L","E","S","H","W","A","R">>, <<"G","O","D","H","R","A">>, <<"D","A","H","O","D">>,
  <<"H","I","M","A","T","N","A","G","A","R">>, <<"H","I","M","M","A","T","N","A","G","A","R">>, <<"S","U","R","E","N","D","R","A","N","A","G","A","R">>, <<"P","A","L","A","N","P","U","R">>, <<"S","A","N","A","N","D">>, <<"B","E","C","H","R","A","J","I">>,
  <<"H","A","L","O","L">>, <<"B","A","R","D","O","L","I">>, <<"C","H","H","A","R","O","D","I">>, <<"A","M","B","L","I">>, <<"G","A","N","D","H","I","N","A","G","A","R">>, <<"D","H","O","L","E","R","A">>,
  <<"P","I","P","A","V","A","V"," ","P","O","R","T">>, <<"K","H","E","D","A","(","G","J",")">>, <<"G","O","A">>, <<"N","U","V","E","M">>, <<"B","H","O","P","A","L">>, <<"I","N","D","O","R","E">>, <<"J","A","B","A","L","P","U","R">>,
  <<"G","W","A","L","I","O","R">>, <<"U","J","J","A","I","N">>, <<"R","A","T","L","A","M">>, <<"D","E","W","A","S">>, <<"S","A","G","A","R">>, <<"S","A","T","N","A">>, <<"R","E","W","A">>, <<"K","A","T","N","I">>,
  <<"C","H","H","I","N","D","W","A","R","A">>, <<"C","H","I","N","D","W","A","R","A">>, <<"K","H","A","N","D","W","A">>, <<"K","H","A","R","G","O","N","E">>, <<"H","O","S","H","A","N","G","A","B","A","D">>, <<"S","E","H","O","R","E">>,
  <<"V","I","D","I","S","H","A">>, <<"S","H","A","H","D","O","L">>, <<"S","E","O","N","I">>, <<"L","A","K","H","N","A","D","O","N">>, <<"S","H","I","V","P","U","R","I">>, <<"G","U","N","A">>, <<"B","I","A","O","R","A">>,
  <<"S","H","U","J","A","L","P","U","R">>, <<"S","U","J","A","L","P","U","R">>, <<"C","H","H","A","T","A","R","P","U","R">>, <<"M","A","H","O","B","A">>, <<"W","A","I","D","H","A","N">>, <<"J","H","A","B","U","A">>, <<"J","A","B","H","U","A">>,
  <<"M","A","K","S","I">>, <<"M","A","K","S","I","(","M","P",")">> >>

south_cities == <<
  <<"B","A","N","G","A","L","O","R","E">>, <<"M","Y","S","O","R","E">>, <<"H","U","B","L","I">>, <<"B","E","L","G","A","U","M">>, <<"B","E","L","G","A","O","N">>, <<"M","A","N","G","A","L","O","R","E">>, <<"M","A","N","G","L","O","R","E">>,
  <<"D","A","V","A","N","G","E","R","E">>, <<"B","E","L","L","A","R","Y">>, <<"T","U","M","K","U","R">>, <<"S","H","I","M","O","G","A">>, <<"S","I","M","O","G","A">>, <<"H","A","S","S","A","N">>, <<"U","D","U","P","I">>,
  <<"C","H","I","T","R","A","D","U","R","G","A">>, <<"H","O","S","P","E","T">>, <<"G","U","L","B","A","R","G","A">>, <<"K","A","L","A","B","U","R","G","I">>, <<"B","I","J","A","P","U","R">>, <<"R","A","I","C","H","U","R">>,
  <<"C","H","I","K","M","A","G","A","L","U","R">>, <<"C","H","I","K","K","A","M","A","G","A","L","U","R","U">>, <<"C","H","I","K","K","A","B","A","L","L","A","P","U","R">>, <<"R","A","M","A","N","A","G","A","R","A">>, <<"B","I","D","A","D","I">>,
  <<"H","O","S","U","R">>, <<"K","A","D","U","R">>, <<"S","I","N","D","H","A","N","U","R">>, <<"Y","E","L","L","A","P","U","R","(","K","A",")">>, <<"T","O","Y","O","T","A"," ","B","A","N","G","L","O","R","E">>, <<"H","A","R","O","H","A","L","L","I">>,
  <<"C","H","E","N","N","A","I">>, <<"C","O","I","M","B","A","T","O","R","E">>, <<"M","A","D","U","R","A","I">>, <<"T","R","I","C","H","Y">>, <<"T","I","R","U","C","H","I","R","A","P","P","A","L","L","I">>, <<"S","A","L","E","M">>,
  <<"T","I","R","U","P","U","R">>, <<"E","R","O","D","E">>, <<"V","E","L","L","O","R","E">>, <<"T","I","R","U","N","E","L","V","E","L","I">>, <<"N","A","G","E","R","C","O","I","L">>, <<"T","H","A","N","J","A","V","U","R">>,
  <<"C","U","D","D","A","L","O","R","E">>, <<"K","A","N","C","H","I","P","U","R","A","M">>, <<"P","O","N","D","I","C","H","E","R","R","Y">>, <<"P","U","D","U","C","H","E","R","R","Y">>, <<"K","A","R","A","I","K","U","D","I">>, <<"S","R","I"," ","C","I","T","Y">>,
  <<"C","H","E","N","N","A","I"," ","P","O","R","T">>, <<"C","H","E","N","N","A","I"," ","T","I">>, <<"V","I","L","U","P","P","U","R","A","M">>, <<"V","E","R","A"," ","V","I","L","P","U","R">>, <<"H","Y","U","N","D","A","I">>,
  <<"R","A","M","A","P","U","R","A","M">>, <<"K","O","C","H","I">>, <<"C","O","C","H","I","N">>, <<"K","O","C","H","I","N">>, <<"T","H","I","R","U","V","A","N","A","N","T","H","A","P","U","R","A","M">>, <<"T","R","I","V","A","N","D","R","U","M">>,
  <<"K","O","Z","H","I","K","O","D","E">>, <<"C","A","L","I","C","U","T">>, <<"T","H","R","I","S","S","U","R">>, <<"T","R","I","S","S","U","R">>, <<"K","O","L","L","A","M">>, <<"A","L","A","P","P","U","Z","H","A">>,
  <<"A","L","L","E","P","P","H","Y">>, <<"P","A","L","A","K","K","A","D">>, <<"P","A","L","L","A","K","A","D">>, <<"K","A","N","N","U","R">>, <<"K","A","S","A","R","G","O","D">>, <<"K","O","T","T","A","Y","A","M">>,
  <<"K","O","T","T","Y","A","M">>, <<"P","A","T","H","A","N","A","M","T","H","I","T","T","A">>, <<"K","A","Y","A","M","K","U","L","A","M">>, <<"M","A","L","A","P","P","U","R","A","M">>, <<"M","A","L","L","A","P","U","R","A","M">>,
  <<"E","R","N","A","K","U","L","A","M">>, <<"M","U","V","A","T","T","U","P","U","Z","H","A">>, <<"H","Y","D","E","R","A","B","A","D">>, <<"S","E","C","U","N","D","E","R","A","B","A","D">>, <<"V","I","J","A","Y","A","W","A","D","A">>,
  <<"V","I","S","A","K","H","A","P","A","T","N","A","M">>, <<"V","I","S","H","A","K","H","A","P","A","T","N","A","M">>, <<"T","I","R","U","P","A","T","I">>, <<"G","U","N","T","U","R">>, <<"N","E","L","L","O","R","E">>, <<"K","U","R","N","O","O","L">>,
  <<"K","A","D","A","P","A">>, <<"A","N","A","N","T","A","P","U","R">>, <<"A","N","A","N","T","H","P","U","R">>, <<"O","N","G","O","L","E">>, <<"R","A","J","A","H","M","U","N","D","R","Y">>, <<"K","A","K","I","N","A","D","A">>,
  <<"B","H","I","M","A","V","A","R","A","M">>, <<"S","R","I","K","A","K","U","L","A","M">>, <<"A","N","A","K","A","P","A","L","L","I">>, <<"K","I","A">>, <<"W","A","R","A","N","G","A","L">>, <<"K","A","R","I","M","N","A","G","A","R">>,
  <<"N","I","Z","A","M","A","B","A","D">>, <<"K","H","A","M","M","A","M">>, <<"N","A","L","G","O","N","D","A">>, <<"M","A","H","B","U","B","N","A","G","A","R">>, <<"N","I","R","M","A","L">>, <<"Z","A","H","E","E","R","A","B","A","D">>,
  <<"A","D","O","N","I">> >>

\* The four "for city_check in ..." loops, in the order they run.
zone_lists == <<
  <<north_cities, <<"N","o","r","t","h">>>>,
  <<east_cities, <<"E","a","s","t">>>>,
  <<west_cities, <<"W","e","s","t">>>>,
  <<south_cities, <<"S","o","u","t","h">>>> >>

\* city_check in city_upper or city_upper in city_check
CityMatches(city_check, city_upper) ==
  Contains(city_check, city_upper) \/ Contains(city_upper, city_check)

\* One loop: some entry of the list matches.
ListMatches(cities, city_upper) ==
  \E i \in 1..Len(cities) : CityMatches(cities[i], city_upper)

\* Loops that run from the last list to the first (C13 must not hold of
\* them).
first_zone_south_first(k, city_upper) ==
  LET M == {j \in k..Len(zone_lists) : ListMatches(zone_lists[j][1], city_upper)}
  IN  IF M = {} THEN <<"O","t","h","e","r">>
      ELSE zone_lists[CHOOSE j \in M : \A i \in M : j >= i][2]

\* The zone of the first loop from loop number k on that returns.
RECURSIVE first_zone(_, _)
first_zone(k, city_upper) ==
  IF k > Len(zone_lists) THEN <<"O","t","h","e","r">>
  ELSE IF ListMatches(zone_lists[k][1], city_upper) THEN zone_lists[k][2]
  ELSE first_zone(k + 1, city_upper)

\* Zone mapping function of the Zone View.
get_zone(city) ==
  IF IsNa(city) \/ city = <<>> THEN <<"U","n","k","n","o","w","n">>
  ELSE first_zone(1, Strip(Upper(city)))

(***************************************************************************)
(* Generic helpers over sequences of rows (pandas frames)                  *)
(***************************************************************************)
Range(s) == {s[i] : i \in 1..Len(s)}

\* Series.sum() of a numeric column.
RECURSIVE SumCol(_, _)
SumCol(rows, col) ==
  IF rows = <<>> THEN 0 ELSE Head(rows)[col] + SumCol(Tail(rows), col)

\* sorted() of a set of strings, ascending by code point.
RECURSIVE SortStr(_)
SortStr(S) ==
  IF S = {} THEN <<>>
  ELSE LET m == CHOOSE a \in S : \A b \in S \ {a} : StrLess(a, b)
       IN  <<m>> \o SortStr(S \ {m})

\* A quantity or amount that is missing or not a number (quantities and
\* amounts are never negative).
NaN == -1

\* pd.to_numeric(errors='coerce').fillna(0)
ToNumeric(v) == IF v = NaN THEN 0 ELSE v

(***************************************************************************)
(* State                                                                   *)
(***************************************************************************)
VARIABLES
  swift_trip_log,          \* table swift_trip_log: sequence of trip rows
  cn_data,                 \* table cn_data: sequence of consignment rows
  excluded_pending_trips,  \* table excluded_pending_trips, newest first
  sob_targets,             \* table sob_targets: party_name -> target_value
  db_up,                   \* whether psycopg2.connect succeeds
  today,                   \* datetime.now().date()
  cache,                   \* st.cache_data entries of the two cached loaders
  session,                 \* widget state and values main() computed in the last run
  tva,                     \* target_vs_actual_fragment: inputs and outputs
  pcn,                     \* pending_cn_fragment: locals and output
  classifier,              \* a call of a classifier function: arguments, results
  write,                   \* a call of a store-writing function and how far it got
  run,                     \* the run of the script or of a fragment in progress
  outages                  \* number of times the store became unreachable

vars == <<swift_trip_log, cn_data, excluded_pending_trips, sob_targets,
          db_up, today, cache, session, tva, pcn, classifier, write, run, outages>>

store == <<swift_trip_log, cn_data, excluded_pending_trips, sob_targets>>

(***************************************************************************)
(* Data store access                                                       *)
(***************************************************************************)
\* get_db_connection(): a connection, or None when the store is unreachable
\* at the moment of the call.  Every step of a run makes at most one call.
get_db_connection == db_up

\* Result of a loader that could not read the store: pd.DataFrame().
EmptyFrame == <<>>

\* load_triplog_data() without its cache: SELECT * FROM swift_trip_log and
\* the column rename (the row fields carry the renamed column names).
load_triplog_data_uncached ==
  IF ~get_db_connection THEN EmptyFrame ELSE swift_trip_log

\* A filter that takes a consignment of any vehicle class for vendor
\* activity (C18 must not hold of it).
IsVendorActivity_any_class(c) ==
  /\ \/ (~IsNa(c.billing_party) /\ c.billing_party = RSAI /\ IsNa(c.tl_no))
     \/ (~IsNa(c.billing_party) /\ c.billing_party # RSAI)
  /\ (IsNa(c.cn_no) \/ ~StartsWith(c.cn_no, <<"T","E","S","T">>))

\* The WHERE clause of load_vendor_data: the vendor activity filter and the
\* TEST consignment filter, with SQL three-valued logic (a comparison with
\* NULL is not true).
IsVendorActivity(c) ==
  /\ \/ (~IsNa(c.billing_party) /\ c.billing_party = RSAI /\ IsNa(c.tl_no))
     \/ (~IsNa(c.billing_party) /\ c.billing_party # RSAI
          /\ ~IsNa(c.vehicle_type) /\ c.vehicle_type = <<"H","i","r","e"," ","V","e","h","i","c","l","e">>)
  /\ (IsNa(c.cn_no) \/ ~StartsWith(c.cn_no, <<"T","E","S","T">>))

\* One row of the frame load_vendor_data returns (renamed columns, CNDate
\* converted with errors='coerce').
VendorRow(c) ==
  [BillingParty |-> c.billing_party, CNDate |-> c.cn_date, CarQty |-> c.qty,
   Freight |-> c.basic_freight, Route |-> c.route, Origin |-> c.origin,
   VehicleNo |-> c.vehicle_no]

RECURSIVE VendorRows(_)
VendorRows(rows) ==
  IF rows = <<>> THEN <<>>
  ELSE (IF IsVendorActivity(Head(rows)) THEN <<VendorRow(Head(rows))>> ELSE <<>>)
       \o VendorRows(Tail(rows))

load_vendor_data_uncached ==
  IF ~get_db_connection THEN EmptyFrame ELSE VendorRows(cn_data)

\* A cache entry: hit = FALSE when nothing is cached for the function.
NoEntry == [hit |-> FALSE, val |-> <<>>]
Entry(v) == [hit |-> TRUE, val |-> v]

\* @st.cache_data: the cached value when there is one, else the function's
\* result, which is stored whatever it is.
Cached(entry, compute) == IF entry.hit THEN entry.val ELSE compute

load_triplog_data(c) == Cached(c.triplog, load_triplog_data_uncached)
load_vendor_data(c) == Cached(c.vendor, load_vendor_data_uncached)

\* The frame a cached loader returns on cache c.
load_data(c, fn) ==
  IF fn = "triplog" THEN load_triplog_data(c) ELSE load_vendor_data(c)

\* A call that uses up the cached trip frame instead of a copy of it (C10
\* must not hold of it).
CacheAfterLoad_used_up(c, fn) ==
  [c EXCEPT ![fn] = IF fn = "triplog" THEN Entry(EmptyFrame)
                    ELSE Entry(load_data(c, fn))]

\* The cache after a call of the cached loader fn on cache c: the entry of
\* fn holds what the call returned.
CacheAfterLoad(c, fn) == [c EXCEPT ![fn] = Entry(load_data(c, fn))]

\* st.cache_data.clear()
CacheCleared == [triplog |-> NoEntry, vendor |-> NoEntry]

\* load_targets(): {party_name: target_value}, or {} on failure.
NoTargets == [p \in {} |-> 0]
load_targets(table) == IF ~get_db_connection THEN NoTargets ELSE table

\* targets.get(party, 0)
TargetGet(targets, party) == IF party \in DOMAIN targets THEN targets[party] ELSE 0

\* A loader that never returns an exclusion (C8 must not hold of it).
load_excluded_trips_none(table) == <<>>

\* load_excluded_trips(): trip numbers newest first, or [] on failure.
load_excluded_trips(table) == IF ~get_db_connection THEN <<>> ELSE table

\* INSERT ... ON CONFLICT (trip_no) DO NOTHING of trip_no.strip(); the new
\* row has the latest excluded_at, so it is listed first.
InsertExcluded(table, trip_no) ==
  IF Strip(trip_no) \in Range(table) THEN table ELSE <<Strip(trip_no)>> \o table

\* DELETE FROM excluded_pending_trips WHERE trip_no = %s
DeleteExcluded(table, trip_no) == SelectSeq(table, LAMBDA t : t # trip_no)

\* INSERT ... ON CONFLICT (party_name) DO UPDATE SET target_value
UpsertTarget(table, party_name, target_value) ==
  [p \in DOMAIN table \cup {party_name} |->
     IF p = party_name THEN target_value ELSE table[p]]

(***************************************************************************)
(* main(): normalization of the trip frame and the month selection         *)
(***************************************************************************)
ALL == <<"A","l","l">>

\* df['DisplayParty']: NewPartyName.fillna(Party), the John Deere override
\* (Party contains 'John Deere', case-insensitive), normalize_party_name.
DisplayParty(r) ==
  LET filled == IF IsNa(r.NewPartyName) THEN r.Party ELSE r.NewPartyName
      overridden == IF ~IsNa(r.Party) /\ Contains(<<"J","O","H","N"," ","D","E","E","R","E">>, Upper(r.Party))
                    THEN JOHN_DEERE ELSE filled
  IN  normalize_party_name(overridden)

\* One row of df after the conversions of main().
NormalizeTrip(r) ==
  [TLHSNo |-> r.TLHSNo, LoadingDate |-> r.LoadingDate,
   LoadingTime |-> r.LoadingTime, VehicleNo |-> r.VehicleNo,
   Route |-> r.Route, TripStatus |-> r.TripStatus, LRNos |-> r.LRNos,
   Party |-> r.Party,
   CarQty |-> ToNumeric(r.CarQty), Freight |-> ToNumeric(r.Freight),
   DisplayParty |-> DisplayParty(r),
   category |-> get_client_category(DisplayParty(r)),
   LoadingDateOnly |-> r.LoadingDate]

NormalizeFrame(rows) == [i \in 1..Len(rows) |-> NormalizeTrip(rows[i])]

\* available_months: the months that have a trip with a valid loading date.
available_months(df) ==
  {MonthOf(df[i].LoadingDate) : i \in {j \in 1..Len(df) : df[j].LoadingDate # NaT}}

\* The month the selectbox yields: the chosen month while it is among the
\* options, else the first option (the latest month); the current month when
\* no trip has a valid date.
selected_month(df, choice) ==
  LET months == available_months(df)
  IN  IF months = {} THEN MonthOf(today)
      ELSE IF choice \in months THEN choice
      ELSE CHOOSE m \in months : \A k \in months : k <= m

\* all_parties without 'All': the display parties present in df.
all_parties(df) ==
  {df[i].DisplayParty : i \in {j \in 1..Len(df) : ~IsNa(df[j].DisplayParty)}}

\* The party the selectbox yields: the chosen party while it is an option.
selected_party(df, choice) == IF choice \in all_parties(df) THEN choice ELSE ALL

\* month_df: the trips of the selected month, of the selected party.
month_df(df, month, party) ==
  SelectSeq(df, LAMBDA r :
    /\ r.LoadingDateOnly # NaT
    /\ r.LoadingDateOnly >= MonthStart(month)
    /\ r.LoadingDateOnly <= MonthEnd(month)
    /\ (party # ALL => (~IsNa(r.DisplayParty) /\ r.DisplayParty = party)))

(***************************************************************************)
(* target_vs_actual_fragment: the unified per-party ledger                 *)
(***************************************************************************)
\* The rows of a frame whose Party column equals party.
RowsOf(rows, party) == SelectSeq(rows, LAMBDA r : r.Party = party)
HasParty(rows, party) == \E i \in 1..Len(rows) : rows[i].Party = party
RowOf(rows, party) == rows[CHOOSE i \in 1..Len(rows) : rows[i].Party = party]

\* current_df / compare_df: trips of a date range that have a display party.
period_df(df, first, last) ==
  SelectSeq(df, LAMBDA r :
    /\ r.LoadingDateOnly # NaT
    /\ r.LoadingDateOnly >= first
    /\ r.LoadingDateOnly <= last
    /\ ~IsNa(r.DisplayParty)
    /\ r.DisplayParty # <<>>)

\* The distinct values of a list in the order of their first appearance.
RECURSIVE FirstAppearance(_)
FirstAppearance(names) ==
  IF names = <<>> THEN <<>>
  ELSE <<Head(names)>>
       \o FirstAppearance(SelectSeq(Tail(names), LAMBDA n : n # Head(names)))

\* A groupby with sort=False: one row per party, in the order in which the
\* parties appear in current_df (C21 must not hold of it).
own_summary_unsorted(current_df) ==
  LET parties == FirstAppearance([i \in 1..Len(current_df) |-> current_df[i].DisplayParty])
  IN  [k \in 1..Len(parties) |->
        LET g == SelectSeq(current_df, LAMBDA r : r.DisplayParty = parties[k])
        IN  [Party |-> parties[k],
             Trips |-> Len(SelectSeq(g, LAMBDA r : ~IsNa(r.TLHSNo))),
             Own_Cars |-> SumCol(g, "CarQty"),
             Own_Freight |-> SumCol(g, "Freight"),
             category |-> get_client_category(parties[k]),
             Vendor_Cars |-> 0,
             Vendor_Freight |-> 0]]

\* current_df.groupby('DisplayParty').agg(count, sum, sum).reset_index(),
\* with the category and the zero vendor columns: one row per party, in
\* ascending order of the party name.
own_summary(current_df) ==
  LET parties == SortStr({current_df[i].DisplayParty : i \in 1..Len(current_df)})
  IN  [k \in 1..Len(parties) |->
        LET g == SelectSeq(current_df, LAMBDA r : r.DisplayParty = parties[k])
        IN  [Party |-> parties[k],
             Trips |-> Len(SelectSeq(g, LAMBDA r : ~IsNa(r.TLHSNo))),
             Own_Cars |-> SumCol(g, "CarQty"),
             Own_Freight |-> SumCol(g, "Freight"),
             category |-> get_client_category(parties[k]),
             Vendor_Cars |-> 0,
             Vendor_Freight |-> 0]]

\* A vendor block without the period filter (C2 must not hold of it).
vendor_current_any_date(vendor_df, first, last) == vendor_df

\* vendor_current: the vendor rows whose CNDate lies in the primary period.
vendor_current(vendor_df, first, last) ==
  SelectSeq(vendor_df, LAMBDA v :
    v.CNDate # NaT /\ v.CNDate >= first /\ v.CNDate < last + 1)

\* vendor_mapped: the rows with their MappedParty, unmapped rows dropped.
vendor_mapped(vcur) ==
  LET mapped == [i \in 1..Len(vcur) |->
                  [MappedParty |-> get_vendor_client_mapping(vcur[i].BillingParty,
                                                              vcur[i].Origin),
                   CarQty |-> ToNumeric(vcur[i].CarQty),
                   Freight |-> ToNumeric(vcur[i].Freight)]]
  IN  SelectSeq(mapped, LAMBDA v : ~IsNa(v.MappedParty))

\* vendor_mapped.groupby('MappedParty').agg(sum, sum).reset_index()
vendor_summary(vmapped) ==
  LET parties == SortStr({vmapped[i].MappedParty : i \in 1..Len(vmapped)})
  IN  [k \in 1..Len(parties) |->
        LET g == SelectSeq(vmapped, LAMBDA v : v.MappedParty = parties[k])
        IN  [Party |-> parties[k],
             Vendor_Cars |-> SumCol(g, "CarQty"),
             Vendor_Freight |-> SumCol(g, "Freight")]]

\* A merge with how='left': only the parties of the own frame (C1 must
\* not hold of it).
merge_keys_left(own, vendor) == SortStr({own[i].Party : i \in 1..Len(own)})

\* The parties of summary.merge(vendor_summary, on='Party', how='outer'):
\* the union of the keys of both frames, in ascending order.
merge_keys(own, vendor) ==
  SortStr({own[i].Party : i \in 1..Len(own)} \cup {vendor[i].Party : i \in 1..Len(vendor)})

\* The outer merge with its fillna(0) calls and the category of the parties
\* that only the vendor frame has.
merge_vendor(own, vendor) ==
  LET keys == merge_keys(own, vendor)
  IN  [k \in 1..Len(keys) |->
        LET party == keys[k]
            inOwn == HasParty(own, party)
            inVendor == HasParty(vendor, party)
        IN  [Party |-> party,
             Trips |-> IF inOwn THEN RowOf(own, party).Trips ELSE 0,
             Own_Cars |-> IF inOwn THEN RowOf(own, party).Own_Cars ELSE 0,
             Own_Freight |-> IF inOwn THEN RowOf(own, party).Own_Freight ELSE 0,
             category |-> IF inOwn THEN RowOf(own, party).category
                          ELSE get_client_category(party),
             Vendor_Cars |-> IF inVendor THEN RowOf(vendor, party).Vendor_Cars
                             ELSE IF inOwn THEN RowOf(own, party).Vendor_Cars ELSE 0,
             Vendor_Freight |-> IF inVendor THEN RowOf(vendor, party).Vendor_Freight
                                ELSE IF inOwn THEN RowOf(own, party).Vendor_Freight ELSE 0]]

\* The merge is done only when vendor_df, vendor_current and vendor_mapped
\* are all non-empty.
merge_if_mapped(own, vmapped) ==
  IF vmapped # <<>> THEN merge_vendor(own, vendor_summary(vmapped)) ELSE own

\* summary after the vendor block.
summary_with_vendor(df, vendor_df, first, last) ==
  merge_if_mapped(own_summary(period_df(df, first, last)),
                  vendor_mapped(vendor_current(vendor_df, first, last)))

\* A total that leaves the vendor cars out (C3 must not hold of it).
total_cars_own_only(row) == row.Own_Cars

\* Total_Cars and Total_Freight of one row.
total_cars(row) == row.Own_Cars + row.Vendor_Cars
total_freight(row) == row.Own_Freight + row.Vendor_Freight

\* compare_df.groupby('DisplayParty').agg(sum, sum)
compare_summary(compare_df) ==
  LET parties == SortStr({compare_df[i].DisplayParty : i \in 1..Len(compare_df)})
  IN  [k \in 1..Len(parties) |->
        LET g == SelectSeq(compare_df, LAMBDA r : r.DisplayParty = parties[k])
        IN  [Party |-> parties[k],
             Compare_Cars |-> SumCol(g, "CarQty"),
             Compare_Freight |-> SumCol(g, "Freight")]]

\* One row of the complete summary frame: the totals, and the comparison
\* figures of the row's party, 0 when the comparison frame lacks the party.
summary_row(row, cmp) ==
  [Party |-> row.Party, Trips |-> row.Trips, category |-> row.category,
   Own_Cars |-> row.Own_Cars, Own_Freight |-> row.Own_Freight,
   Vendor_Cars |-> row.Vendor_Cars, Vendor_Freight |-> row.Vendor_Freight,
   Total_Cars |-> total_cars(row), Total_Freight |-> total_freight(row),
   Compare_Cars |-> IF HasParty(cmp, row.Party)
                    THEN RowOf(cmp, row.Party).Compare_Cars ELSE 0,
   Compare_Freight |-> IF HasParty(cmp, row.Party)
                       THEN RowOf(cmp, row.Party).Compare_Freight ELSE 0]

\* summary.merge(compare_summary, on='Party', how='left') with fillna(0):
\* the rows of summary, in their order.
merge_compare(merged, cmp) ==
  [k \in 1..Len(merged) |-> summary_row(merged[k], cmp)]

\* The complete summary frame of a primary and a comparison period.
summary_frame(df, vendor_df, first, last, cmp_first, cmp_last) ==
  merge_compare(summary_with_vendor(df, vendor_df, first, last),
                compare_summary(period_df(df, cmp_first, cmp_last)))

\* A table cell that shows a number, or '' when there is none.
Blank == <<>>
Cell(n) == <<n>>

\* final_rows = [], set up at the start of every run of the fragment.
final_rows_init == <<>>

\* The zeroed grand_total accumulator, set up at the start of every run of
\* the fragment.
grand_total_init ==
  [Own |-> 0, Vendor |-> 0, Total |-> 0, Own_F |-> 0, Vendor_F |-> 0,
   Total_F |-> 0, Cars_Comp |-> 0, Freight_Comp |-> 0, Target_SQR |-> 0]

\* The table row of one party.
party_row(row, targets, category) ==
  LET target_sqr == TargetGet(targets, row.Party)
  IN  [Client |-> row.Party,
       Target_SQR |-> IF target_sqr # 0 THEN Cell(target_sqr) ELSE Blank,
       Own |-> row.Own_Cars, Vendor |-> row.Vendor_Cars, Total |-> row.Total_Cars,
       Own_F |-> row.Own_Freight, Vendor_F |-> row.Vendor_Freight,
       Total_F |-> row.Total_Freight,
       Cars_Comp |-> row.Compare_Cars, Freight_Comp |-> row.Compare_Freight,
       is_total |-> FALSE, category |-> category]

\* category_target_sum: the sum of the stored targets of the category's rows.
RECURSIVE category_target_sum(_, _)
category_target_sum(cat_df, targets) ==
  IF cat_df = <<>> THEN 0
  ELSE TargetGet(targets, Head(cat_df).Party) + category_target_sum(Tail(cat_df), targets)

\* The "<category> - Total" row.
category_total_row(cat_df, targets, category) ==
  LET tsum == category_target_sum(cat_df, targets)
  IN  [Client |-> category \o <<" ","-"," ","T","o","t","a","l">>,
       Target_SQR |-> IF tsum > 0 THEN Cell(tsum) ELSE Blank,
       Own |-> SumCol(cat_df, "Own_Cars"), Vendor |-> SumCol(cat_df, "Vendor_Cars"),
       Total |-> SumCol(cat_df, "Total_Cars"),
       Own_F |-> SumCol(cat_df, "Own_Freight"), Vendor_F |-> SumCol(cat_df, "Vendor_Freight"),
       Total_F |-> SumCol(cat_df, "Total_Freight"),
       Cars_Comp |-> SumCol(cat_df, "Compare_Cars"),
       Freight_Comp |-> SumCol(cat_df, "Compare_Freight"),
       is_total |-> TRUE, category |-> category]

\* A category loop body that appends the total row of every category (C20
\* must not hold of it).
category_rows_always_total(summary, targets, category) ==
  LET cat_df == SelectSeq(summary, LAMBDA r : r.category = category)
  IN  [i \in 1..Len(cat_df) |-> party_row(cat_df[i], targets, category)]
      \o (IF Len(cat_df) > 0 THEN <<category_total_row(cat_df, targets, category)>>
          ELSE <<>>)

\* The rows one category appends to final_rows: its party rows in the order
\* of the summary frame, then its total row when it has more than one party.
category_rows(summary, targets, category) ==
  LET cat_df == SelectSeq(summary, LAMBDA r : r.category = category)
  IN  [i \in 1..Len(cat_df) |-> party_row(cat_df[i], targets, category)]
      \o (IF Len(cat_df) > 1 THEN <<category_total_row(cat_df, targets, category)>>
          ELSE <<>>)

\* grand_total after one category was accumulated into it.
accumulate(grand, summary, targets, category) ==
  LET cat_df == SelectSeq(summary, LAMBDA r : r.category = category)
  IN  [Own |-> grand.Own + SumCol(cat_df, "Own_Cars"),
       Vendor |-> grand.Vendor + SumCol(cat_df, "Vendor_Cars"),
       Total |-> grand.Total + SumCol(cat_df, "Total_Cars"),
       Own_F |-> grand.Own_F + SumCol(cat_df, "Own_Freight"),
       Vendor_F |-> grand.Vendor_F + SumCol(cat_df, "Vendor_Freight"),
       Total_F |-> grand.Total_F + SumCol(cat_df, "Total_Freight"),
       Cars_Comp |-> grand.Cars_Comp + SumCol(cat_df, "Compare_Cars"),
       Freight_Comp |-> grand.Freight_Comp + SumCol(cat_df, "Compare_Freight"),
       Target_SQR |-> grand.Target_SQR + category_target_sum(cat_df, targets)]

\* The loop over category_order from category number k on, carrying
\* final_rows and grand_total.
RECURSIVE category_loop(_, _, _, _, _)
category_loop(k, rows, grand, summary, targets) ==
  IF k > Len(category_order) THEN [rows |-> rows, grand |-> grand]
  ELSE category_loop(k + 1,
                     rows \o category_rows(summary, targets, category_order[k]),
                     accumulate(grand, summary, targets, category_order[k]),
                     summary, targets)

\* The 'Grand Total' row.
grand_total_row(grand) ==
  [Client |-> <<"G","r","a","n","d"," ","T","o","t","a","l">>,
   Target_SQR |-> IF grand.Target_SQR > 0 THEN Cell(grand.Target_SQR) ELSE Blank,
   Own |-> grand.Own, Vendor |-> grand.Vendor, Total |-> grand.Total,
   Own_F |-> grand.Own_F, Vendor_F |-> grand.Vendor_F, Total_F |-> grand.Total_F,
   Cars_Comp |-> grand.Cars_Comp, Freight_Comp |-> grand.Freight_Comp,
   is_total |-> TRUE, category |-> <<"G","r","a","n","d">>]

\* What a run of target_vs_actual_fragment leaves: its date inputs, the
\* summary frame, the table rows and the totals.
fragment_output(dates, summary, looped) ==
  [ran |-> TRUE, dates |-> dates, summary |-> summary,
   final_rows |-> looped.rows \o <<grand_total_row(looped.grand)>>,
   grand_total |-> looped.grand,
   \* shortfall, before the division by 100000
   shortfall |-> looped.grand.Total_F - looped.grand.Freight_Comp]

\* The table built from a summary frame: the loop over category_order, run
\* on an empty final_rows and a zeroed grand_total.
ledger_of(dates, summary, targets) ==
  fragment_output(dates, summary,
                  category_loop(1, final_rows_init, grand_total_init, summary, targets))

\* What one run of target_vs_actual_fragment computes from the frames of
\* main() and its four date inputs.
target_vs_actual(df, vendor_df, targets, dates) ==
  ledger_of(dates,
            summary_frame(df, vendor_df, dates.select_month_start, dates.till_date,
                          dates.compare_month, dates.compare_till_date),
            targets)

\* The fragment before its first run.
tva_none ==
  [ran |-> FALSE, defaults |-> <<0, 0, 0, 0>>,
   dates |-> [select_month_start |-> 0, till_date |-> 0,
              compare_month |-> 0, compare_till_date |-> 0],
   summary |-> <<>>, final_rows |-> <<>>,
   grand_total |-> [Own |-> 0, Vendor |-> 0, Total |-> 0, Own_F |-> 0,
                    Vendor_F |-> 0, Total_F |-> 0, Cars_Comp |-> 0,
                    Freight_Comp |-> 0, Target_SQR |-> 0],
   shortfall |-> 0]

(***************************************************************************)
(* pending_cn_fragment: trips that lack a consignment record               *)
(***************************************************************************)
PENDING_AGE_DAYS == 3

\* A cut-off of two days (C4 must not hold of it).
d_minus_2_of(now) == now - 2

\* d_minus_3 = datetime.now().date() - timedelta(days=3)
d_minus_3_of(now) == now - PENDING_AGE_DAYS

\* LRNos is missing, empty or whitespace only.
lr_blank(lr) == IsNa(lr) \/ lr = <<>> \/ Strip(lr) = <<>>

\* A row filter that does not look at LRNos (C7 must not hold of it).
is_candidate_any_reference(r, excluded_trips, d_minus_3) ==
  /\ ~IsNa(r.TripStatus) /\ r.TripStatus = <<"L","o","a","d","e","d">>
  /\ r.LoadingDate # NaT /\ r.LoadingDate <= d_minus_3
  /\ r.TLHSNo \notin Range(excluded_trips)

\* The row filter that builds pending_cn_df from month_df.
is_candidate(r, excluded_trips, d_minus_3) ==
  /\ ~IsNa(r.TripStatus) /\ r.TripStatus = <<"L","o","a","d","e","d">>
  /\ lr_blank(r.LRNos)
  /\ r.LoadingDate # NaT /\ r.LoadingDate <= d_minus_3
  /\ r.TLHSNo \notin Range(excluded_trips)

candidates(mdf, excluded_trips, d_minus_3) ==
  SelectSeq(mdf, LAMBDA r : is_candidate(r, excluded_trips, d_minus_3))

\* cn_query: SELECT DISTINCT cn_date, vehicle_no ... both NOT NULL.
cn_records ==
  {<<cn_data[i].cn_date, cn_data[i].vehicle_no>> :
     i \in {j \in 1..Len(cn_data) :
              cn_data[j].cn_date # NaT /\ ~IsNa(cn_data[j].vehicle_no)}}

\* own_vehicle_query: SELECT DISTINCT route, vehicle_no of the Own Vehicle
\* consignments that are not linked to a trip.
own_vehicle_records ==
  {<<cn_data[i].route, cn_data[i].vehicle_no>> :
     i \in {j \in 1..Len(cn_data) :
              /\ (IsNa(cn_data[j].tl_no) \/ cn_data[j].tl_no = <<>>)
              /\ ~IsNa(cn_data[j].vehicle_type)
              /\ cn_data[j].vehicle_type = <<"O","w","n"," ","V","e","h","i","c","l","e">>
              /\ ~IsNa(cn_data[j].route) /\ cn_data[j].route # <<>>
              /\ ~IsNa(cn_data[j].vehicle_no) /\ cn_data[j].vehicle_no # <<>>}}

\* cn_keys: cn_date as text + '_' + upper-cased, trimmed vehicle_no.
cn_keys_of(records) ==
  {KeyJoin(DateStr(rec[1]), UpperStrip(rec[2])) : rec \in records}

\* own_vehicle_keys: route + '_' + vehicle_no, both upper-cased and trimmed.
own_vehicle_keys_of(records) ==
  {KeyJoin(UpperStrip(rec[1]), UpperStrip(rec[2])) : rec \in records}

\* A lookup_key of the vehicle number as it is stored (C5 must not hold of
\* it).
lookup_key_raw(r) == KeyJoin(DateStr(r.LoadingDate), r.VehicleNo)

\* lookup_key of a pending trip.
lookup_key(r) == KeyJoin(DateStr(r.LoadingDate), UpperStrip(r.VehicleNo))

\* route_vehicle_key of a pending trip.
route_vehicle_key(r) == KeyJoin(UpperStrip(r.Route), UpperStrip(r.VehicleNo))

\* Method 1: drop the trips whose lookup_key is a cn key.
method1(pending, cn_keys) ==
  SelectSeq(pending, LAMBDA r : lookup_key(r) \notin cn_keys)

\* Method 2: drop the trips whose route_vehicle_key is an own-vehicle key.
method2(pending, own_vehicle_keys) ==
  SelectSeq(pending, LAMBDA r : route_vehicle_key(r) \notin own_vehicle_keys)

\* pending_cn_df after the Method 1 block: it runs when the cross-check ran
\* and cn_records is not empty.
after_method1(pending, checked, cn_recs) ==
  IF checked /\ cn_recs # {} THEN method1(pending, cn_keys_of(cn_recs)) ELSE pending

\* pending_cn_df after the Method 2 block: it runs when the cross-check ran,
\* own_vehicle_records is not empty and trips are left.
after_method2(pending, checked, own_recs) ==
  IF checked /\ own_recs # {} /\ Len(pending) > 0
  THEN method2(pending, own_vehicle_keys_of(own_recs)) ELSE pending

\* Row a is loaded before row b: the order of the LoadingDate timestamps.
Earlier(a, b) ==
  \/ a.LoadingDate < b.LoadingDate
  \/ a.LoadingDate = b.LoadingDate /\ a.LoadingTime < b.LoadingTime

\* pending_cn_df.sort_values('LoadingDate'): the frames the sort can give.
\* It ascends in the timestamp; its default kind (quicksort) is not stable,
\* so rows of one timestamp come in any order.
sort_by_loading_date(rows) ==
  {[i \in 1..Len(rows) |-> rows[f[i]]] :
     f \in {g \in [1..Len(rows) -> 1..Len(rows)] :
              /\ \A i, j \in 1..Len(rows) : i # j => g[i] # g[j]
              /\ \A i \in 1..(Len(rows) - 1) : ~Earlier(rows[g[i + 1]], rows[g[i]])}}

\* pending_cn_fragment up to the row filter (lines 2125-2136): the cut-off
\* date, the exclusion list read from the table and the candidate frame.
pending_candidates(mdf, table) ==
  LET d3 == d_minus_3_of(today)
      excluded_trips == load_excluded_trips(table)
  IN  [d_minus_3 |-> d3, excluded_trips |-> excluded_trips,
       candidates |-> candidates(mdf, excluded_trips, d3)]

\* The cross-check of the candidates p with cn_data (lines 2139-2197): it
\* opens its own connection and is skipped when there is no candidate or no
\* connection.  kept is pending_cn_df before it is sorted.
cross_check(p) ==
  LET checked == Len(p.candidates) > 0 /\ get_db_connection
      cn_recs == IF checked THEN cn_records ELSE {}
      own_recs == IF checked THEN own_vehicle_records ELSE {}
      after1 == after_method1(p.candidates, checked, cn_recs)
  IN  [d_minus_3 |-> p.d_minus_3, excluded_trips |-> p.excluded_trips,
       candidates |-> p.candidates, checked |-> checked,
       cn_records |-> cn_recs, own_vehicle_records |-> own_recs,
       after_method1 |-> after1,
       kept |-> after_method2(after1, checked, own_recs)]

\* What a run of the fragment shows: the cross-checked frame c with its
\* rows in the order sorted (lines 2201-2203).
pending_cn(c, sorted) ==
  [ran |-> TRUE, d_minus_3 |-> c.d_minus_3, excluded_trips |-> c.excluded_trips,
   candidates |-> c.candidates, checked |-> c.checked,
   cn_records |-> c.cn_records, own_vehicle_records |-> c.own_vehicle_records,
   after_method1 |-> c.after_method1, pending_cn_df |-> sorted]

\* The fragment between its two reads of the store: no candidates yet.
pend_none == [d_minus_3 |-> 0, excluded_trips |-> <<>>, candidates |-> <<>>]

\* The fragment before its first run.
pcn_none ==
  [ran |-> FALSE, d_minus_3 |-> 0, excluded_trips |-> <<>>, candidates |-> <<>>,
   checked |-> FALSE, cn_records |-> {}, own_vehicle_records |-> {},
   after_method1 |-> <<>>, pending_cn_df |-> <<>>]

(***************************************************************************)
(* One run of the script                                                   *)
(***************************************************************************)
\* compare_month defaults to datetime(2025, 12, 1): day 335 of 2025.
COMPARE_MONTH_DEFAULT == 366 + 335

Min(a, b) == IF a <= b THEN a ELSE b

\* The four date inputs of target_vs_actual_fragment, in the order of the
\* script.
DateField == <<"select_month_start", "till_date", "compare_month", "compare_till_date">>

\* st.date_input(label, default): a widget without a key is the same widget
\* while its label and its default are the same; it then holds the value of
\* the last run, else it is a new widget that holds its default.  held is
\* the state of the inputs (their defaults and their values) of the last run
\* that rendered them.
date_input(held, k, default) ==
  IF held.defaults[k] = default THEN held.dates[DateField[k]] ELSE default

\* The date inputs as a run for the month renders them (lines 693-701): the
\* default of "Compare Till Date" follows the values of "Compare With Month"
\* and "Till Date".
date_inputs(held, month) ==
  LET d1 == MonthStart(month)
      v1 == date_input(held, 1, d1)
      d2 == Min(today - 1, MonthEnd(month))
      v2 == date_input(held, 2, d2)
      d3 == COMPARE_MONTH_DEFAULT
      v3 == date_input(held, 3, d3)
      d4 == v3 + (DayOf(v2) - 1)
      v4 == date_input(held, 4, d4)
  IN  [defaults |-> <<d1, d2, d3, d4>>,
       dates |-> [select_month_start |-> v1, till_date |-> v2,
                  compare_month |-> v3, compare_till_date |-> v4]]

\* The state of date inputs that the last run did not render: they are new
\* widgets in the next run.
no_defaults == <<NaT, NaT, NaT, NaT>>

\* One run of target_vs_actual_fragment for the month: the ledger of the
\* dates its inputs hold.
target_vs_actual_fragment(df, vendor_df, targets, held, month) ==
  LET w == date_inputs(held, month)
  IN  [defaults |-> w.defaults] @@ target_vs_actual(df, vendor_df, targets, w.dates)

\* main() returned at "No data available": nothing below line 428 is
\* rendered, so the month and party selectboxes lose their state.
session_none ==
  [live |-> FALSE, df |-> <<>>, vendor_df |-> <<>>, targets |-> NoTargets,
   month |-> 0, party |-> ALL, month_df |-> <<>>, excluded_trips |-> <<>>,
   w_month |-> 0, w_party |-> ALL]

\* A button of the sidebar that was clicked, with what its inputs hold.
Click(kind, arg) == [kind |-> kind, arg |-> arg]
NoClick == Click("", <<>>)

\* No run of the script or of pending_cn_fragment is in progress.  A run in
\* progress is at the connection attempt of line pc and holds the local
\* variables of main(); rerun_of is the click whose handler started the run
\* with st.rerun() (the script does not read it).
run_idle ==
  [pc |-> "idle", kind |-> "", click |-> NoClick, rerun_of |-> NoClick,
   df |-> <<>>, vendor_df |-> <<>>,
   targets |-> NoTargets, month |-> 0, party |-> ALL, excluded_trips |-> <<>>,
   month_df |-> <<>>, tva |-> tva_none, pend |-> pend_none]

\* main() from its first line to df = load_triplog_data() (lines 416-422),
\* run because of click.
main_started(click) ==
  [run_idle EXCEPT !.pc = "L423", !.kind = "script", !.click = click,
                   !.df = load_triplog_data(cache)]

\* st.rerun() in the handler of click: the run ends here and the script
\* runs again from the top.
st_rerun(click) ==
  [run_idle EXCEPT !.pc = "L422", !.kind = "script", !.rerun_of = click]

\* main() after targets = load_targets() down to the selectboxes of the
\* sidebar (lines 424-473), on a trip frame that is not empty.
main_sidebar(r) ==
  LET df == NormalizeFrame(r.df)
  IN  [r EXCEPT !.targets = load_targets(sob_targets), !.df = df,
                !.month = selected_month(df, session.w_month),
                !.party = selected_party(df, session.w_party)]

\* main() from month_start to target_vs_actual_fragment() (lines 544-1064),
\* up to the first connection attempt of pending_cn_fragment.
main_fragments(r) ==
  [r EXCEPT !.pc = "L2128", !.click = NoClick,
            !.month_df = month_df(r.df, r.month, r.party),
            !.tva = target_vs_actual_fragment(r.df, r.vendor_df, r.targets,
                                              tva, r.month)]

\* What the page holds when a run of the script has ended.
main(r) ==
  [live |-> TRUE, df |-> r.df, vendor_df |-> r.vendor_df, targets |-> r.targets,
   month |-> r.month, party |-> r.party, month_df |-> r.month_df,
   excluded_trips |-> r.excluded_trips,
   w_month |-> session.w_month, w_party |-> session.w_party]

(***************************************************************************)
(* Bounds and input sets                                                   *)
(***************************************************************************)
\* Longest trip table and consignment table a behaviour starts from.
MaxTrips == 2
MaxCN == 2
\* Number of days the clock advances.
MaxDays == 1
\* Longest exclusion list.
MaxExcluded == 2
\* Number of times the store becomes unreachable.
MaxOutages == 1

FirstDay == Date(5, 10)

HONDA_TAPUKERA == <<"H","o","n","d","a"," ","C","a","r","s"," ","I","n","d","i","a"," ","L","t","d"," ","-"," ","T","a","p","u","k","e","r","a">>
GLOVIS_KIA == <<"G","l","o","v","i","s"," ","I","n","d","i","a"," ","P","v","t"," ","L","t","d"," ","-"," ","K","I","A">>
KA01 == <<"K","A","0","1","A","B","1","2","3","4">>
PUNE_DELHI == <<"P","U","N","E"," ","-"," ","D","E","L","H","I">>

\* Trip identifiers are unique: the i-th row of the trip table is T-10i.
TripNo(i) == <<"T","-","1","0">> \o <<Digit[i + 1]>>

Trip(date, vehicle, route, status, lr, newparty, party, qty, freight) ==
  [LoadingDate |-> date, LoadingTime |-> 0, VehicleNo |-> vehicle, Route |-> route,
   TripStatus |-> status, LRNos |-> lr, NewPartyName |-> newparty,
   Party |-> party, CarQty |-> qty, Freight |-> freight]

\* The trip loaded at the given hour of its day.
At(trip, hour) == [trip EXCEPT !.LoadingTime = hour]

Consignment(cn_no, party, date, qty, freight, route, origin, vehicle, tl_no, vtype) ==
  [cn_no |-> cn_no, billing_party |-> party, cn_date |-> date, qty |-> qty,
   basic_freight |-> freight, route |-> route, origin |-> origin,
   vehicle_no |-> vehicle, tl_no |-> tl_no, vehicle_type |-> vtype]

\* Trips that differ in party, date and figures (ledger inputs).
LedgerTrips == <<
  Trip(Date(5, 2), KA01, PUNE_DELHI, <<"L","o","a","d","e","d">>, <<"L","R","1">>, <<"T","o","y","o","t","a"," ","K","i","r","l","o","s","k","a","r"," ","M","o","t","o","r">>, <<"T","o","y","o","t","a"," ","K","i","r","l","o","s","k","a","r"," ","M","o","t","o","r">>, 1, 50),
  Trip(Date(5, 1), KA01, PUNE_DELHI, <<"L","o","a","d","e","d">>, <<"L","R","1">>, HONDA_TAPUKERA, HONDA_TAPUKERA, 2, 100),
  Trip(Date(5, 1), KA01, PUNE_DELHI, <<"E","m","p","t","y">>, <<"L","R","1">>, <<>>, <<>>, 3, 70),
  Trip(Date(4, 30), KA01, PUNE_DELHI, <<"L","o","a","d","e","d">>, <<"L","R","1">>, HONDA_TAPUKERA, HONDA_TAPUKERA, 4, 30),
  Trip(Date(5, 3), KA01, PUNE_DELHI, <<"L","o","a","d","e","d">>, <<"L","R","1">>, NULL, <<"G","o","l","d","e","n"," ","T","r","a","n","s","p","o","r","t">>, 1, 20),
  Trip(Date(5, 2), KA01, PUNE_DELHI, <<"L","o","a","d","e","d">>, <<"L","R","1">>, NULL, NULL, 1, 10) >>

\* Consignments that differ in billing party, origin, date, class, link and
\* number (ledger inputs).
LedgerCN == <<
  Consignment(<<"C","N","1">>, HONDA_TAPUKERA, Date(5, 1), 5, 250, PUNE_DELHI, NULL, <<"M","H","1","2","X","Y","0","0","0","1">>, NULL, <<"H","i","r","e"," ","V","e","h","i","c","l","e">>),
  Consignment(<<"C","N","2">>, GLOVIS_KIA, Date(5, 2), 5, 25000, PUNE_DELHI, NULL, <<"M","H","1","2","X","Y","0","0","0","1">>, NULL, <<"H","i","r","e"," ","V","e","h","i","c","l","e">>),
  Consignment(<<"C","N","3">>, MAHINDRA, Date(5, 3), 2, 80, PUNE_DELHI, <<"C","h","a","k","a","n",","," ","P","u","n","e">>, <<"M","H","1","2","X","Y","0","0","0","1">>, NULL, <<"H","i","r","e"," ","V","e","h","i","c","l","e">>),
  Consignment(<<"C","N","4">>, RSAI, Date(5, 1), 1, 40, PUNE_DELHI, NULL, <<"M","H","1","2","X","Y","0","0","0","1">>, NULL, <<"O","w","n"," ","V","e","h","i","c","l","e">>),
  Consignment(<<"C","N","5">>, RSAI, Date(5, 1), 1, 45, PUNE_DELHI, NULL, <<"M","H","1","2","X","Y","0","0","0","1">>, <<"T","-","1","0","1">>, <<"O","w","n"," ","V","e","h","i","c","l","e">>),
  Consignment(<<"C","N","6">>, <<>>, Date(5, 2), 3, 60, PUNE_DELHI, NULL, <<"M","H","1","2","X","Y","0","0","0","1">>, NULL, <<"H","i","r","e"," ","V","e","h","i","c","l","e">>),
  Consignment(<<"C","N","7">>, <<"A","C","M","E"," ","C","a","r","r","i","e","r","s">>, Date(5, 2), 1, 15, PUNE_DELHI, NULL, <<"M","H","1","2","X","Y","0","0","0","1">>, NULL, <<"H","i","r","e"," ","V","e","h","i","c","l","e">>),
  Consignment(<<"T","E","S","T","-","1">>, GLOVIS_KIA, Date(5, 2), 7, 700, PUNE_DELHI, NULL, <<"M","H","1","2","X","Y","0","0","0","1">>, NULL, <<"H","i","r","e"," ","V","e","h","i","c","l","e">>),
  Consignment(<<"C","N","9">>, <<"T","o","y","o","t","a"," ","K","i","r","l","o","s","k","a","r"," ","M","o","t","o","r">>, Date(5, 2), 2, 90, PUNE_DELHI, NULL, <<"M","H","1","2","X","Y","0","0","0","1">>, NULL, <<"O","w","n"," ","V","e","h","i","c","l","e">>),
  Consignment(<<"C","N","1","0">>, HONDA_TAPUKERA, Date(4, 30), 6, 35, PUNE_DELHI, NULL, <<"M","H","1","2","X","Y","0","0","0","1">>, NULL, <<"H","i","r","e"," ","V","e","h","i","c","l","e">>) >>

\* Trips that differ in date, vehicle, route, status and consignment
\* reference, and in the hour of a day (pending-CN inputs).
PendingTrips == <<
  At(Trip(Date(5, 1), KA01, PUNE_DELHI, <<"L","o","a","d","e","d">>, <<>>, HONDA_TAPUKERA, HONDA_TAPUKERA, 1, 10), 15),
  Trip(Date(5, 7), <<"k","a","0","1","a","b","1","2","3","4"," ">>, <<"P","u","n","e"," ","-"," ","D","e","l","h","i">>, <<"L","o","a","d","e","d">>, NULL, HONDA_TAPUKERA, HONDA_TAPUKERA, 1, 10),
  Trip(Date(5, 8), KA01, PUNE_DELHI, <<"L","o","a","d","e","d">>, <<" ">>, HONDA_TAPUKERA, HONDA_TAPUKERA, 1, 10),
  Trip(Date(5, 1), KA01, PUNE_DELHI, <<"L","o","a","d","e","d">>, <<"L","R","-","7","7">>, HONDA_TAPUKERA, HONDA_TAPUKERA, 1, 10),
  Trip(Date(5, 1), KA01, PUNE_DELHI, <<"L","o","a","d","e","d"," ">>, <<>>, HONDA_TAPUKERA, HONDA_TAPUKERA, 1, 10),
  At(Trip(Date(5, 1), <<"C">>, <<"A","_","B">>, <<"L","o","a","d","e","d">>, <<>>, HONDA_TAPUKERA, HONDA_TAPUKERA, 1, 10), 9) >>

\* Consignments that differ in date, vehicle, route, link, class and number
\* (pending-CN inputs).
PendingCN == <<
  Consignment(<<"T","E","S","T","-","1">>, HONDA_TAPUKERA, Date(5, 1), 1, 10, <<"M","U","M","B","A","I"," ","-"," ","G","O","A">>, NULL, KA01, <<"T","-","1","0","1">>, <<"H","i","r","e"," ","V","e","h","i","c","l","e">>),
  Consignment(<<"C","N","2">>, HONDA_TAPUKERA, Date(5, 7), 1, 10, <<"M","U","M","B","A","I"," ","-"," ","G","O","A">>, NULL, <<" ","K","a","0","1","A","b","1","2","3","4">>, <<"T","-","1","0","2">>, <<"H","i","r","e"," ","V","e","h","i","c","l","e">>),
  Consignment(<<"T","E","S","T","3">>, HONDA_TAPUKERA, Date(5, 20), 1, 10, <<"p","u","n","e"," ","-"," ","d","e","l","h","i"," ">>, NULL, KA01, NULL, <<"O","w","n"," ","V","e","h","i","c","l","e">>),
  Consignment(<<"C","N","5">>, HONDA_TAPUKERA, Date(5, 20), 1, 10, PUNE_DELHI, NULL, KA01, <<"T","-","1","0","1">>, <<"O","w","n"," ","V","e","h","i","c","l","e">>),
  Consignment(<<"C","N","6">>, HONDA_TAPUKERA, Date(5, 20), 1, 10, PUNE_DELHI, NULL, KA01, NULL, <<"H","i","r","e"," ","V","e","h","i","c","l","e">>),
  Consignment(<<"C","N","7">>, HONDA_TAPUKERA, Date(5, 20), 1, 10, <<"A">>, NULL, <<"B","_","C">>, NULL, <<"O","w","n"," ","V","e","h","i","c","l","e">>),
  Consignment(<<"C","N","8">>, HONDA_TAPUKERA, NaT, 1, 10, <<"M","U","M","B","A","I"," ","-"," ","G","O","A">>, NULL, KA01, <<"T","-","1","0","1">>, <<"H","i","r","e"," ","V","e","h","i","c","l","e">>),
  Consignment(<<"C","N","9">>, HONDA_TAPUKERA, Date(5, 1), 1, 10, <<"M","U","M","B","A","I"," ","-"," ","G","O","A">>, NULL, NULL, <<"T","-","1","0","1">>, <<"H","i","r","e"," ","V","e","h","i","c","l","e">>) >>

\* All tables of at most n rows drawn from a list of rows, the rows of a
\* table in the order of the list.
Tables(rows, n) ==
  UNION {{[i \in 1..k |-> rows[f[i]]] :
            f \in {g \in [1..k -> 1..Len(rows)] :
                     \A i \in 1..(k - 1) : g[i] <= g[i + 1]}} : k \in 0..n}

\* A trip table: the chosen rows with their trip identifiers.
WithTripNo(rows) ==
  [i \in 1..Len(rows) |-> [TLHSNo |-> TripNo(i)] @@ rows[i]]

\* Trip numbers an operator types into "Trip No to Exclude".
TripNoInputs == {<<"T","-","1","0","1">>, <<" ","T","-","1","0","2"," ">>}

\* A date a user sets in one of the four date inputs: the number of the
\* input and the date.
DateInputs == {<<3, Date(4, 1)>>, <<4, Date(4, 30)>>}

\* The fragment runs again on its timer: no input is set.
NoDateInput == <<0, NaT>>

\* Target values a user saves.
TargetInputs == {<<HONDA_TAPUKERA, 10>>}

\* A call of one of the classifier functions (get_client_category, get_zone,
\* normalize_party_name, get_vendor_client_mapping) on given arguments: the
\* number of times it was made, what it returned the first time and what it
\* returned the second time.
Call(fn, args) == [fn |-> fn, args |-> args, calls |-> 0, out |-> NULL, again |-> NULL]

\* No classifier function is called on its own.
classifier_idle == Call("", <<>>)

\* A call of a store-writing function: who made it (the run of the script,
\* or another session), its argument, whether it returned True, at which
\* statement it failed, and the two tables as they were when it was made.
NoCall ==
  [by |-> "", fn |-> "", arg |-> <<>>, result |-> "", failed_at |-> "",
   before |-> [excluded |-> <<>>, targets |-> NoTargets]]

\* No store-writing function has been called; prev is the call before the
\* latest one.
write_idle == [stage |-> "idle", call |-> NoCall, prev |-> NoCall]

(***************************************************************************)
(* Initial states                                                          *)
(***************************************************************************)
\* The store holds the given tables, the store is reachable, nothing is
\* cached and the script has not run.
InitWith(trips, cns, excluded, targets) ==
  /\ swift_trip_log = WithTripNo(trips)
  /\ cn_data = cns
  /\ excluded_pending_trips = excluded
  /\ sob_targets = targets
  /\ db_up = TRUE
  /\ today = FirstDay
  /\ cache = CacheCleared
  /\ session = session_none
  /\ tva = tva_none
  /\ pcn = pcn_none
  /\ classifier = classifier_idle
  /\ write = write_idle
  /\ run = run_idle
  /\ outages = 0

SystemTrips == <<
  Trip(Date(5, 1), KA01, PUNE_DELHI, <<"L","o","a","d","e","d">>, <<>>, HONDA_TAPUKERA, HONDA_TAPUKERA, 2, 100),
  Trip(Date(5, 7), <<"M","H","1","2","X","Y","0","0","0","1">>, PUNE_DELHI, <<"L","o","a","d","e","d">>, NULL, HONDA_TAPUKERA, HONDA_TAPUKERA, 1, 50),
  Trip(Date(4, 30), KA01, PUNE_DELHI, <<"L","o","a","d","e","d">>, <<>>, HONDA_TAPUKERA, HONDA_TAPUKERA, 4, 30) >>

SystemCN == {
  << Consignment(<<"C","N","2">>, GLOVIS_KIA, Date(5, 2), 5, 25000, <<"M","U","M","B","A","I"," ","-"," ","G","O","A">>, NULL, <<"G","J","0","5","Z","Z","0","0","0","9">>, NULL, <<"H","i","r","e"," ","V","e","h","i","c","l","e">>),
     Consignment(<<"C","N","3">>, HONDA_TAPUKERA, Date(5, 7), 1, 10, <<"M","U","M","B","A","I"," ","-"," ","G","O","A">>, NULL, <<"m","h","1","2","x","y","0","0","0","1">>, <<"T","-","1","0","2">>, <<"O","w","n"," ","V","e","h","i","c","l","e">>) >> }

\* The date inputs a user of the running system sets.
SystemDateInputs == {<<3, Date(4, 1)>>}

\* The trip number an operator of the running system excludes.
SystemTripNoInputs == {<<"T","-","1","0","1">>}

\* The running system: a fixed trip table and consignment table.
Init ==
  \E cns \in SystemCN : InitWith(SystemTrips, cns, <<>>, NoTargets)

\* Any trip table and consignment table of the ledger inputs.
InitLedger ==
  \E trips \in Tables(LedgerTrips, MaxTrips), cns \in Tables(LedgerCN, MaxCN) :
    InitWith(trips, cns, <<>>, NoTargets)

\* Any trip table and consignment table of the pending-CN inputs, with an
\* empty exclusion list or with the first trip excluded.
InitPending ==
  \E trips \in Tables(PendingTrips, MaxTrips), cns \in Tables(PendingCN, MaxCN),
     excluded \in {<<>>, <<TripNo(1)>>} :
    InitWith(trips, cns, excluded, NoTargets)

(***************************************************************************)
(* Actions                                                                 *)
(***************************************************************************)
\* The script starts because of a page load or an interaction outside a
\* fragment, and runs to its first read of the store (lines 416-422).  The
\* sidebar holds the month w_month and the party w_party.  The page shows
\* the output of a run when the run has ended; the widgets keep their state.
Start(click, w_month, w_party) ==
  /\ run.pc = "idle"
  /\ run' = main_started(click)
  /\ cache' = CacheAfterLoad(cache, "triplog")
  /\ session' = [session_none EXCEPT !.w_month = w_month, !.w_party = w_party]
  /\ tva' = [tva_none EXCEPT !.defaults = tva.defaults, !.dates = tva.dates]
  /\ pcn' = pcn_none
  /\ UNCHANGED <<store, db_up, outages, today, classifier, write>>

\* The page is loaded, or reloaded.
Rerun == Start(NoClick, session.w_month, session.w_party)

\* The page is loaded for the first time, or again after "No data
\* available".
PageLoad ==
  /\ ~session.live
  /\ Rerun

\* The user picks a month in the sidebar.
SelectMonth(m) ==
  /\ session.live
  /\ m \in available_months(session.df)
  /\ m # session.month
  /\ Start(NoClick, m, session.w_party)

\* The user picks a party in the sidebar.
SelectParty(p) ==
  /\ session.live
  /\ p \in all_parties(session.df) \cup {ALL}
  /\ p # session.party
  /\ Start(NoClick, session.w_month, p)

\* The user clicks "Refresh Data".
RefreshData ==
  /\ session.live
  /\ Start(Click("refresh", <<>>), session.w_month, session.w_party)

\* The user clicks "Add Exclusion" with a non-empty trip number.
AddExclusion(t) ==
  /\ session.live
  /\ t # <<>>
  /\ Len(excluded_pending_trips) < MaxExcluded \/ Strip(t) \in Range(excluded_pending_trips)
  /\ Start(Click("add", t), session.w_month, session.w_party)

\* The user clicks the remove button of a listed exclusion.
RemoveExclusion(t) ==
  /\ session.live
  /\ t \in Range(session.excluded_trips)
  /\ Start(Click("remove", t), session.w_month, session.w_party)

\* The user clicks "Save Target" for a party of the trip frame.
SaveTarget(party, value) ==
  /\ session.live
  /\ party \in all_parties(session.df) \ {<<>>}
  /\ Start(Click("save", <<party, value>>), session.w_month, session.w_party)

\* df = load_triplog_data() of a run that st.rerun() started (line 422).
LoadTriplog ==
  /\ run.pc = "L422"
  /\ run' = [main_started(NoClick) EXCEPT !.rerun_of = run.rerun_of]
  /\ cache' = CacheAfterLoad(cache, "triplog")
  /\ UNCHANGED <<store, db_up, outages, today, session, tva, pcn, classifier, write>>

\* vendor_df = load_vendor_data() (line 423).
LoadVendor ==
  /\ run.pc = "L423"
  /\ run' = [run EXCEPT !.pc = "L424", !.vendor_df = load_vendor_data(cache)]
  /\ cache' = CacheAfterLoad(cache, "vendor")
  /\ UNCHANGED <<store, db_up, outages, today, session, tva, pcn, classifier, write>>

\* targets = load_targets() and the script down to the buttons of the
\* sidebar (lines 424-525).  With an empty trip frame the run ends at "No
\* data available".  "Refresh Data" clears the cache and ends the run with
\* st.rerun(), before the date inputs are rendered; "Save Target" and "Add
\* Exclusion" call their store-writing function.
LoadTargets ==
  /\ run.pc = "L424"
  /\ IF run.df = EmptyFrame
     THEN /\ run' = run_idle
          /\ session' = session_none
          /\ tva' = tva_none
          /\ pcn' = pcn_none
          /\ UNCHANGED cache
     ELSE /\ UNCHANGED <<session, pcn>>
          /\ \E r \in {main_sidebar(run)} :
               CASE r.click.kind = "refresh" ->
                      /\ cache' = CacheCleared
                      /\ run' = st_rerun(r.click)
                      /\ tva' = [tva EXCEPT !.defaults = no_defaults]
                 [] \/ r.click.kind = "add"
                    \/ /\ r.click.kind = "save"
                       /\ r.click.arg[1] \in all_parties(r.df) \ {<<>>} ->
                      /\ run' = [r EXCEPT !.pc = "call"]
                      /\ UNCHANGED <<cache, tva>>
                 [] OTHER ->
                      /\ run' = [r EXCEPT !.pc = "L529"]
                      /\ UNCHANGED <<cache, tva>>
  /\ UNCHANGED <<store, db_up, outages, today, classifier, write>>

\* Calls of save_target, add_excluded_trip and remove_excluded_trip that
\* other sessions make.
WriteCalls ==
  {<<"add_excluded_trip", t>> : t \in TripNoInputs}
  \cup {<<"remove_excluded_trip", t>> : t \in TripNoInputs \cup {Strip(t) : t \in TripNoInputs}}
  \cup {<<"save_target", tv>> : tv \in TargetInputs}

\* The call that the handler of a clicked button makes.
call_of(click) ==
  CASE click.kind = "add" -> <<"add_excluded_trip", click.arg>>
    [] click.kind = "remove" -> <<"remove_excluded_trip", click.arg>>
    [] click.kind = "save" -> <<"save_target", click.arg>>

\* The two tables the functions write.
persisted == [excluded |-> excluded_pending_trips, targets |-> sob_targets]

\* The tables after the SQL statement of a function was committed.
statement(fn, arg, tables) ==
  CASE fn = "add_excluded_trip" ->
         [tables EXCEPT !.excluded = InsertExcluded(@, arg)]
    [] fn = "remove_excluded_trip" ->
         [tables EXCEPT !.excluded = DeleteExcluded(@, arg)]
    [] fn = "save_target" ->
         [tables EXCEPT !.targets = UpsertTarget(@, arg[1], arg[2])]

\* The except branch (or the conn is None branch): the function returns
\* False.
Failed(at) ==
  [stage |-> "returned", prev |-> write.prev,
   call |-> [write.call EXCEPT !.result = "False", !.failed_at = at]]

\* conn = get_db_connection(): the function is called and opens its
\* connection, or returns False when there is none.  Calls are made one
\* after another: a statement takes effect as a whole at its commit, so a
\* call that overlaps another acts as one made before or after it.
Connect(by, fn, arg) ==
  /\ write.stage \in {"idle", "returned"}
  /\ fn = "add_excluded_trip" =>
       (Len(excluded_pending_trips) < MaxExcluded
        \/ Strip(arg) \in Range(excluded_pending_trips))
  /\ LET called == [stage |-> "connected", prev |-> write.call,
                    call |-> [by |-> by, fn |-> fn, arg |-> arg, result |-> "",
                              failed_at |-> "", before |-> persisted]]
     IN  write' = IF get_db_connection THEN called
                  ELSE [called EXCEPT !.stage = "returned", !.call.result = "False",
                                      !.call.failed_at = "connect"]
  /\ UNCHANGED <<store, db_up, outages, today, cache, session, tva, pcn, classifier>>

\* The run of the script calls the function of the clicked button.
OwnCall ==
  /\ run.pc = "call"
  /\ Connect("run", call_of(run.click)[1], call_of(run.click)[2])
  /\ run' = [run EXCEPT !.pc = "calling"]

\* Another session calls a store-writing function.
OtherCall(fn, arg) ==
  /\ run.pc # "calling"
  /\ Connect("other", fn, arg)
  /\ UNCHANGED run

\* A cursor.execute that is committed at once (C25 must not hold of it).
Execute_autocommit ==
  /\ write.stage = "connected"
  /\ IF get_db_connection
     THEN /\ write' = [write EXCEPT !.stage = "executed"]
          /\ excluded_pending_trips' =
               statement(write.call.fn, write.call.arg, persisted).excluded
          /\ sob_targets' = statement(write.call.fn, write.call.arg, persisted).targets
     ELSE /\ write' = Failed("execute")
          /\ UNCHANGED <<excluded_pending_trips, sob_targets>>
  /\ UNCHANGED <<swift_trip_log, cn_data, db_up, outages, today, cache, session, tva, pcn,
                 classifier, run>>

\* cursor.execute(...): the statement runs inside the transaction of the
\* connection, so the tables other connections read are as before; it
\* raises when the connection was lost.
Execute ==
  /\ write.stage = "connected"
  /\ write' = IF get_db_connection THEN [write EXCEPT !.stage = "executed"]
               ELSE Failed("execute")
  /\ UNCHANGED <<store, db_up, outages, today, cache, session, tva, pcn, classifier, run>>

\* conn.commit(), cursor.close(), conn.close(), return True: the statement
\* takes effect as a whole.  The commit raises when the connection was lost
\* before the store received it; it also raises when the connection is lost
\* after the store committed and before its reply arrives, and the function
\* then returns False although the statement took effect.
Commit ==
  /\ write.stage = "executed"
  /\ IF get_db_connection
     THEN /\ \E replied \in BOOLEAN :
               write' = [stage |-> "returned", prev |-> write.prev,
                         call |-> [write.call EXCEPT
                                     !.result = IF replied THEN "True" ELSE "False",
                                     !.failed_at = IF replied THEN "" ELSE "reply"]]
          /\ excluded_pending_trips' =
               statement(write.call.fn, write.call.arg, persisted).excluded
          /\ sob_targets' = statement(write.call.fn, write.call.arg, persisted).targets
     ELSE /\ write' = Failed("commit")
          /\ UNCHANGED <<excluded_pending_trips, sob_targets>>
  /\ UNCHANGED <<swift_trip_log, cn_data, db_up, outages, today, cache, session, tva, pcn,
                 classifier, run>>

\* The handler after its call returned (the call is over): on True it clears the cache and ends
\* the run with st.rerun(), before the date inputs are rendered; on False
\* the run goes on below the button.
AfterCall ==
  /\ run.pc = "calling"
  /\ write.stage = "returned"
  /\ IF write.call.result = "True"
     THEN /\ cache' = CacheCleared
          /\ run' = st_rerun(run.click)
          /\ tva' = [tva EXCEPT !.defaults = no_defaults]
     ELSE /\ run' = IF run.click.kind = "remove" THEN main_fragments(run)
                    ELSE [run EXCEPT !.pc = "L529", !.click = NoClick]
          /\ UNCHANGED <<cache, tva>>
  /\ write' = write_idle
  /\ UNCHANGED <<store, db_up, outages, today, session, pcn, classifier>>

\* excluded_trips = load_excluded_trips() of the sidebar (line 529) and the
\* script down to pending_cn_fragment: the remove button of a listed trip,
\* when clicked, calls remove_excluded_trip.
Sidebar ==
  /\ run.pc = "L529"
  /\ \E listed \in {load_excluded_trips(excluded_pending_trips)} :
       run' = IF run.click.kind = "remove" /\ run.click.arg \in Range(listed)
              THEN [run EXCEPT !.pc = "call", !.excluded_trips = listed]
              ELSE main_fragments([run EXCEPT !.excluded_trips = listed])
  /\ UNCHANGED <<store, db_up, outages, today, cache, session, tva, pcn, classifier, write>>

\* The run r ends with the pending-CN table result: the page shows what the
\* run computed.
Ended(r, result) ==
  /\ run' = run_idle
  /\ pcn' = result
  /\ IF r.kind = "script"
     THEN /\ session' = main(r)
          /\ tva' = r.tva
     ELSE UNCHANGED <<session, tva>>

\* pending_cn_fragment of a run of the script up to its row filter (lines
\* 2125-2136); without candidates it ends here.
PendingCandidates ==
  /\ run.pc = "L2128"
  /\ \E p \in {pending_candidates(run.month_df, excluded_pending_trips)} :
       IF Len(p.candidates) > 0
       THEN /\ run' = [run EXCEPT !.pc = "L2141", !.pend = p]
            /\ UNCHANGED <<session, tva, pcn>>
       ELSE Ended(run, pending_cn(cross_check(p), <<>>))
  /\ UNCHANGED <<store, db_up, outages, today, cache, classifier, write>>

\* The cross-check and the sort of pending_cn_fragment (lines 2139-2203).
CrossCheck ==
  /\ run.pc = "L2141"
  /\ \E c \in {cross_check(run.pend)} :
       \E sorted \in sort_by_loading_date(c.kept) : Ended(run, pending_cn(c, sorted))
  /\ UNCHANGED <<store, db_up, outages, today, cache, classifier, write>>

\* target_vs_actual_fragment runs again, on its timer (k = 0) or because
\* the user set its k-th date input to x.
TargetVsActualFragment(k, x) ==
  /\ run.pc = "idle"
  /\ session.live
  /\ tva.ran
  /\ k # 0 => x # tva.dates[DateField[k]]
  /\ tva' = target_vs_actual_fragment(
              session.df, session.vendor_df, session.targets,
              IF k = 0 THEN tva ELSE [tva EXCEPT !.dates[DateField[k]] = x],
              session.month)
  /\ UNCHANGED <<store, db_up, outages, today, cache, session, pcn, classifier, write, run>>

\* pending_cn_fragment runs again on its timer, up to its row filter; with
\* candidates it goes on to the cross-check, and the page shows its table
\* when it has ended.
PendingCnFragment ==
  /\ run.pc = "idle"
  /\ session.live
  /\ pcn.ran
  /\ \E p \in {pending_candidates(session.month_df, excluded_pending_trips)} :
       IF Len(p.candidates) > 0
       THEN /\ run' = [run_idle EXCEPT !.pc = "L2141", !.kind = "fragment", !.pend = p]
            /\ pcn' = pcn_none
       ELSE /\ pcn' = pending_cn(cross_check(p), <<>>)
            /\ UNCHANGED run
  /\ UNCHANGED <<store, db_up, outages, today, cache, session, tva, classifier, write>>

\* The store becomes unreachable, or reachable again.
DbDown ==
  /\ db_up
  /\ outages < MaxOutages
  /\ db_up' = FALSE
  /\ outages' = outages + 1
  /\ UNCHANGED <<store, today, cache, session, tva, pcn, classifier, write, run>>

DbUp ==
  /\ ~db_up
  /\ db_up' = TRUE
  /\ UNCHANGED <<store, today, cache, session, tva, pcn, classifier, write, run, outages>>

\* Midnight passes.
NextDay ==
  /\ today < FirstDay + MaxDays
  /\ today' = today + 1
  /\ UNCHANGED <<store, db_up, outages, cache, session, tva, pcn, classifier, write, run>>

\* The ttl of the cached result of loader fn runs out.
CacheExpire(fn) ==
  /\ cache[fn].hit
  /\ cache' = [cache EXCEPT ![fn] = NoEntry]
  /\ UNCHANGED <<store, db_up, outages, today, session, tva, pcn, classifier, write, run>>

(***************************************************************************)
(* Specifications                                                          *)
(***************************************************************************)
Next ==
  \/ Rerun
  \/ \E m \in 1..12 : SelectMonth(m)
  \/ \E p \in all_parties(session.df) \cup {ALL} : SelectParty(p)
  \/ RefreshData
  \/ \E t \in SystemTripNoInputs : AddExclusion(t)
  \/ \E t \in Range(session.excluded_trips) : RemoveExclusion(t)
  \/ \E tv \in TargetInputs : SaveTarget(tv[1], tv[2])
  \/ LoadTriplog
  \/ LoadVendor
  \/ LoadTargets
  \/ OwnCall
  \/ Execute
  \/ Commit
  \/ AfterCall
  \/ Sidebar
  \/ PendingCandidates
  \/ CrossCheck
  \/ \E d \in SystemDateInputs \cup {NoDateInput} : TargetVsActualFragment(d[1], d[2])
  \/ PendingCnFragment
  \/ DbDown
  \/ DbUp
  \/ NextDay
  \/ \E fn \in {"triplog", "vendor"} : CacheExpire(fn)

Spec == Init /\ [][Next]_vars

\* The ledger of any trip and consignment tables, for any dates: the page
\* is loaded and the ledger fragment runs again and again.  No trip of the
\* ledger inputs lacks a consignment reference.
NextLedger ==
  \/ PageLoad
  \/ LoadVendor
  \/ LoadTargets
  \/ Sidebar
  \/ PendingCandidates
  \/ \E d \in DateInputs \cup {NoDateInput} : TargetVsActualFragment(d[1], d[2])

SpecLedger == InitLedger /\ [][NextLedger]_vars

\* Pending-CN detection on any trip and consignment tables: the page is
\* loaded, and the pending-CN fragment runs again and again while the store
\* comes and goes.
NextPending ==
  \/ PageLoad
  \/ LoadVendor
  \/ LoadTargets
  \/ Sidebar
  \/ PendingCandidates
  \/ CrossCheck
  \/ PendingCnFragment
  \/ session.live /\ DbDown
  \/ session.live /\ DbUp

SpecPending == InitPending /\ [][NextPending]_vars

(***************************************************************************)
(* The classifier functions on their own                                   *)
(***************************************************************************)
\* All keywords of the category rules.
Keywords == UNION {category_rules[k][1] : k \in 1..Len(category_rules)}

\* Counterparty names: missing, empty, blank, every pair of rule keywords,
\* the display names of the vendor mapping, the Market Load aliases, and
\* spellings that differ from an alias in case, padding or extra words.
PartyNameInputs ==
  {NULL, <<>>, <<" ">>, <<"A","C","M","E"," ","C","a","r","r","i","e","r","s">>, <<"h","o","n","d","a"," ","t","a","t","a">>, <<"M","a","r","k","e","t"," ","L","o","a","d"," ","S","p","i","n","n","y">>,
   <<" ","G","o","l","d","e","n"," ","T","r","a","n","s","p","o","r","t"," ">>, <<"g","o","l","d","e","n"," ","t","r","a","n","s","p","o","r","t">>, <<"G","O","L","D","E","N"," ","T","R","A","N","S","P","O","R","T"," ","L","T","D">>,
   <<"V","A","L","U","E","D","R","I","V","E"," ","T","E","C","H","N","O","L","O","G","I","E","S"," ","P","R","I","V","A","T","E"," ","L","I","M","I","T","E","D","(","S","P","I","N","N","Y",")"," ","U","P">>,
   <<"V","a","l","u","e","d","r","i","v","e"," ","T","e","c","h","n","o","l","o","g","i","e","s"," ","P","r","i","v","a","t","e"," ","L","i","m","i","t","e","d","(","S","P","I","N","N","Y",")"," ","u","p">>,
   <<"V","A","L","U","E","D","R","I","V","E"," ","T","E","C","H","N","O","L","O","G","I","E","S"," ","P","R","I","V","A","T","E"," ","L","I","M","I","T","E","D","(","S","P","I","N","N","Y",")"," ","U","P"," ","E","A","S","T">>,
   <<"J","o","h","n"," ","D","e","e","r","e"," ","E","q","u","i","p","m","e","n","t">>, <<"j","o","h","n"," ","d","e","e","r","e">>, <<"J","O","H","N"," "," ","D","E","E","R","E">>, JOHN_DEERE}
  \cup {a \o <<" ">> \o b : a \in Keywords, b \in Keywords}
  \cup {vendor_mappings[i][2] : i \in 1..Len(vendor_mappings)}
  \cup market_load_parties

\* City tokens: missing, empty, blank, every gazetteer entry, and tokens
\* that differ from an entry in case, padding or extra words.
CityInputs ==
  {NULL, <<>>, <<" ">>, <<" "," "," ">>, <<"d","e","l","h","i">>, <<" ","D","e","l","h","i"," ">>, <<"D","E","L","H","I"," ","C","H","E","N","N","A","I">>,
   <<"C","h","e","n","n","a","i"," ","-"," ","D","e","l","h","i">>, <<"T","I","M","B","U","K","T","U">>, <<"A">>, <<"n","a","n">>, <<"P","u","n","e"," ","C","i","t","y">>, <<"X","Y","Z">>}
  \cup Range(north_cities) \cup Range(east_cities)
  \cup Range(west_cities) \cup Range(south_cities)

\* Billing parties: missing, empty, the keys of the vendor mapping, the
\* origin-split party, and strings that are no key.
BillingPartyInputs ==
  {NULL, <<>>, MAHINDRA, <<"M","A","H","I","N","D","R","A"," ","L","O","G","I","S","T","I","C","S"," ","L","T","D">>, <<"M","a","h","i","n","d","r","a"," ","L","o","g","i","s","t","i","c","s"," ","L","t","d",".">>,
   <<"A","C","M","E"," ","C","a","r","r","i","e","r","s">>, <<" ","G","l","o","v","i","s"," ","I","n","d","i","a"," ","P","v","t"," ","L","t","d"," ","-"," ","K","I","A">>, <<"g","l","o","v","i","s"," ","i","n","d","i","a"," ","p","v","t"," ","l","t","d"," ","-"," ","k","i","a">>,
   <<"M","a","r","k","e","t"," ","L","o","a","d">>}
  \cup {vendor_mappings[i][1] : i \in 1..Len(vendor_mappings)}

\* Origin cities of a consignment.
OriginInputs ==
  {NULL, <<>>, <<" ">>, <<"C","h","a","k","a","n",","," ","P","u","n","e">>, <<"c","h","a","k","a","n">>, <<"N","a","s","h","i","k">>, <<" ","N","A","S","H","I","K"," ">>,
   <<"H","a","r","i","d","w","a","r">>, <<"C","h","e","n","n","a","i">>, <<"N","a","s","h","i","k"," ","-"," ","C","h","a","k","a","n">>, <<"H","a","r","i","d","w","a","r"," ","/"," ","N","a","s","h","i","k">>, <<"P","u","n","e">>}

\* The calls that can be made.
Calls ==
  {Call("get_client_category", <<n>>) : n \in PartyNameInputs}
  \cup {Call("normalize_party_name", <<n>>) : n \in PartyNameInputs}
  \cup {Call("get_zone", <<c>>) : c \in CityInputs}
  \cup {Call("get_vendor_client_mapping", <<b, o>>) :
           b \in BillingPartyInputs, o \in OriginInputs}

\* Any one call on an empty store.
InitClassify ==
  /\ swift_trip_log = <<>>
  /\ cn_data = <<>>
  /\ excluded_pending_trips = <<>>
  /\ sob_targets = NoTargets
  /\ db_up = TRUE
  /\ today = FirstDay
  /\ cache = CacheCleared
  /\ session = session_none
  /\ tva = tva_none
  /\ pcn = pcn_none
  /\ classifier \in Calls
  /\ write = write_idle
  /\ run = run_idle
  /\ outages = 0

\* The call returns result: the first and the second call are recorded.
Returned(result) ==
  /\ classifier.calls < 2
  /\ classifier' = IF classifier.calls = 0
                   THEN [classifier EXCEPT !.calls = 1, !.out = result]
                   ELSE [classifier EXCEPT !.calls = 2, !.again = result]
  /\ UNCHANGED <<store, db_up, outages, today, cache, session, tva, pcn, write, run>>

GetClientCategory ==
  /\ classifier.fn = "get_client_category"
  /\ Returned(get_client_category(classifier.args[1]))

NormalizePartyName ==
  /\ classifier.fn = "normalize_party_name"
  /\ Returned(normalize_party_name(classifier.args[1]))

GetZone ==
  /\ classifier.fn = "get_zone"
  /\ Returned(get_zone(classifier.args[1]))

GetVendorClientMapping ==
  /\ classifier.fn = "get_vendor_client_mapping"
  /\ Returned(get_vendor_client_mapping(classifier.args[1], classifier.args[2]))

NextClassify ==
  \/ GetClientCategory
  \/ NormalizePartyName
  \/ GetZone
  \/ GetVendorClientMapping

SpecClassify == InitClassify /\ [][NextClassify]_vars

(***************************************************************************)
(* The store-writing functions, statement by statement                     *)
(***************************************************************************)
\* The running system with its store.
InitStore == Init

\* The functions called one after another while the store comes and goes.
NextStore ==
  \/ \E c \in WriteCalls : OtherCall(c[1], c[2])
  \/ Execute
  \/ Commit
  \/ DbDown
  \/ DbUp

SpecStore == InitStore /\ [][NextStore]_vars

\* The calls other sessions make while a session runs the script.
SnapshotCalls == {<<"add_excluded_trip", <<"T","-","1","0","1">>>>} \cup {<<"save_target", tv>> : tv \in TargetInputs}

\* A session runs the script and its fragments while other sessions call
\* the store-writing functions; the store stays reachable.
NextSnapshot ==
  \/ Rerun
  \/ LoadVendor
  \/ LoadTargets
  \/ Sidebar
  \/ PendingCandidates
  \/ CrossCheck
  \/ PendingCnFragment
  \/ \E d \in SystemDateInputs \cup {NoDateInput} : TargetVsActualFragment(d[1], d[2])
  \/ \E c \in SnapshotCalls : OtherCall(c[1], c[2])
  \/ Execute
  \/ Commit

SpecSnapshot == InitStore /\ [][NextSnapshot]_vars

(***************************************************************************)
(* The ledger of parties that share a category, with stored targets        *)
(***************************************************************************)
HONDA_NOIDA == <<"H","o","n","d","a"," ","C","a","r","s"," ","I","n","d","i","a"," ","L","t","d"," ","-"," ","N","o","i","d","a">>

\* Trips of two parties of one category and of a party of another.
CategoryTrips == <<
  Trip(Date(5, 1), KA01, PUNE_DELHI, <<"L","o","a","d","e","d">>, <<"L","R","1">>, HONDA_TAPUKERA, HONDA_TAPUKERA, 2, 100),
  Trip(Date(5, 2), KA01, PUNE_DELHI, <<"L","o","a","d","e","d">>, <<"L","R","1">>, HONDA_NOIDA, HONDA_NOIDA, 3, 70),
  Trip(Date(5, 2), KA01, PUNE_DELHI, <<"L","o","a","d","e","d">>, <<"L","R","1">>, <<"T","o","y","o","t","a"," ","K","i","r","l","o","s","k","a","r"," ","M","o","t","o","r">>, <<"T","o","y","o","t","a"," ","K","i","r","l","o","s","k","a","r"," ","M","o","t","o","r">>, 1, 50),
  Trip(Date(4, 30), KA01, PUNE_DELHI, <<"L","o","a","d","e","d">>, <<"L","R","1">>, HONDA_TAPUKERA, HONDA_TAPUKERA, 4, 30) >>

\* Consignments of a third party of the first category, of two parties of a
\* further category, of an unlisted carrier and of the R.sai party.
CategoryCN == <<
  Consignment(<<"C","N","1">>, HONDA_NOIDA, Date(5, 2), 5, 250, PUNE_DELHI, NULL, <<"M","H","1","2","X","Y","0","0","0","1">>, NULL, <<"H","i","r","e"," ","V","e","h","i","c","l","e">>),
  Consignment(<<"C","N","2">>, GLOVIS_KIA, Date(5, 2), 5, 25000, PUNE_DELHI, NULL, <<"M","H","1","2","X","Y","0","0","0","1">>, NULL, <<"H","i","r","e"," ","V","e","h","i","c","l","e">>),
  Consignment(<<"C","N","3">>, <<"G","l","o","v","i","s"," ","I","n","d","i","a"," ","P","v","t"," ","L","t","d"," ","-"," ","H","y","u","n","d","a","i">>, Date(5, 3), 2, 80, PUNE_DELHI, NULL, <<"M","H","1","2","X","Y","0","0","0","1">>, NULL, <<"H","i","r","e"," ","V","e","h","i","c","l","e">>),
  Consignment(<<"C","N","4">>, <<"A","C","M","E"," ","C","a","r","r","i","e","r","s">>, Date(5, 2), 1, 15, PUNE_DELHI, NULL, <<"M","H","1","2","X","Y","0","0","0","1">>, NULL, <<"H","i","r","e"," ","V","e","h","i","c","l","e">>),
  Consignment(<<"C","N","5">>, RSAI, Date(5, 1), 1, 40, PUNE_DELHI, NULL, <<"M","H","1","2","X","Y","0","0","0","1">>, NULL, <<"O","w","n"," ","V","e","h","i","c","l","e">>) >>

\* Stored target tables: none, one party, parties of two categories.
CategoryTargets ==
  {NoTargets,
   [p \in {HONDA_TAPUKERA} |-> 10],
   [p \in {HONDA_TAPUKERA, HONDA_NOIDA, GLOVIS_KIA} |->
      IF p = HONDA_TAPUKERA THEN 10 ELSE IF p = HONDA_NOIDA THEN 5 ELSE 7]}

InitSubtotal ==
  \E trips \in Tables(CategoryTrips, MaxTrips), cns \in Tables(CategoryCN, MaxCN),
     targets \in CategoryTargets :
    InitWith(trips, cns, <<>>, targets)

SpecSubtotal == InitSubtotal /\ [][NextLedger]_vars

(***************************************************************************)
(* The unified ledger (C1 to C3), under SpecLedger                         *)
(***************************************************************************)
\* A date of the primary period of the last ledger run.
InPrimary(d) ==
  d # NaT /\ d >= tva.dates.select_month_start /\ d <= tva.dates.till_date

\* A party name that names a party: neither missing nor empty.
HasName(p) == ~IsNa(p) /\ p # <<>>

\* The stored trips and the stored vendor-activity consignments of the
\* primary period.
PrimaryTrips == SelectSeq(swift_trip_log, LAMBDA r : InPrimary(r.LoadingDate))
PrimaryVendor ==
  SelectSeq(cn_data, LAMBDA c : IsVendorActivity(c) /\ InPrimary(c.cn_date))

\* The canonical party of a consignment.
VendorParty(c) == get_vendor_client_mapping(c.billing_party, c.origin)

\* The canonical parties of the own rows and of the vendor rows.
OwnParties == {DisplayParty(r) : r \in Range(PrimaryTrips)} \ {NULL, <<>>}
VendorParties == {VendorParty(c) : c \in Range(PrimaryVendor)} \ {NULL, <<>>}

\* The parties of the summary frame and of the party rows of the table.
LedgerParties == {tva.summary[k].Party : k \in 1..Len(tva.summary)}
PartyRows == SelectSeq(tva.final_rows, LAMBDA row : ~row.is_total)
TableParties == {PartyRows[k].Client : k \in 1..Len(PartyRows)}

\* The sum of a numeric column over stored rows, a missing number counting 0.
RECURSIVE Total(_, _)
Total(rows, col) ==
  IF rows = <<>> THEN 0 ELSE ToNumeric(Head(rows)[col]) + Total(Tail(rows), col)

\* C1: the parties of the unified ledger are exactly the canonical parties
\* of the own rows of the primary period together with the canonical
\* parties of the vendor rows of the primary period, one row per party, in
\* the summary frame and in the table.
C1_LedgerUnion ==
  tva.ran =>
    /\ LedgerParties = OwnParties \cup VendorParties
    /\ TableParties = OwnParties \cup VendorParties
    /\ Len(tva.summary) = Cardinality(OwnParties \cup VendorParties)
    /\ Len(PartyRows) = Cardinality(OwnParties \cup VendorParties)

\* C1 witness: a ledger with a vendor-only party, an own-only party and a
\* party of both sides.
C1_Witness ==
  /\ tva.ran
  /\ \E p \in LedgerParties : p \in VendorParties \ OwnParties
  /\ \E p \in LedgerParties : p \in OwnParties \ VendorParties
  /\ \E p \in LedgerParties : p \in OwnParties \cap VendorParties

\* C2 as stated: the grand totals are the sums over every trip and every
\* vendor-activity consignment of the primary period.
C2_AllRowsCounted ==
  tva.ran =>
    /\ tva.grand_total.Own = Total(PrimaryTrips, "CarQty")
    /\ tva.grand_total.Own_F = Total(PrimaryTrips, "Freight")
    /\ tva.grand_total.Vendor = Total(PrimaryVendor, "qty")
    /\ tva.grand_total.Vendor_F = Total(PrimaryVendor, "basic_freight")

\* The rows of the primary period that have a party.
NamedTrips == SelectSeq(PrimaryTrips, LAMBDA r : HasName(DisplayParty(r)))
NamedVendor == SelectSeq(PrimaryVendor, LAMBDA c : HasName(c.billing_party))

\* C2: every trip of the primary period that has a display party and every
\* vendor-activity consignment of the primary period that has a billing
\* party is counted in exactly one party row, the row of its canonical
\* party; the grand totals are the sums over those trips and consignments.
C2_NamedRowsCounted ==
  tva.ran =>
    /\ \A k \in 1..Len(tva.summary) :
         LET row == tva.summary[k]
             mine == SelectSeq(NamedTrips, LAMBDA r : DisplayParty(r) = row.Party)
             theirs == SelectSeq(NamedVendor, LAMBDA c : VendorParty(c) = row.Party)
         IN  /\ row.Own_Cars = Total(mine, "CarQty")
             /\ row.Own_Freight = Total(mine, "Freight")
             /\ row.Vendor_Cars = Total(theirs, "qty")
             /\ row.Vendor_Freight = Total(theirs, "basic_freight")
    /\ \A r \in Range(NamedTrips) : DisplayParty(r) \in LedgerParties
    /\ \A c \in Range(NamedVendor) : VendorParty(c) \in LedgerParties
    /\ tva.grand_total.Own = Total(NamedTrips, "CarQty")
    /\ tva.grand_total.Own_F = Total(NamedTrips, "Freight")
    /\ tva.grand_total.Vendor = Total(NamedVendor, "qty")
    /\ tva.grand_total.Vendor_F = Total(NamedVendor, "basic_freight")

\* C2 witness: a ledger of a period that holds a trip without a display
\* party next to a trip with one, and vendor consignments of two parties.
C2_Witness ==
  /\ tva.ran
  /\ Len(NamedTrips) > 0 /\ Len(NamedTrips) < Len(PrimaryTrips)
  /\ Len(NamedVendor) > 0
  /\ tva.grand_total.Own > 0 /\ tva.grand_total.Vendor > 0

\* C3: in every row of the ledger the total is own plus vendor, for cars
\* and for freight; a party without own rows has no trips, own cars or own
\* freight, a party without vendor rows no vendor cars or vendor freight.
C3_TotalIsOwnPlusVendor ==
  tva.ran =>
    /\ \A k \in 1..Len(tva.summary) :
         LET row == tva.summary[k]
         IN  /\ row.Total_Cars = row.Own_Cars + row.Vendor_Cars
             /\ row.Total_Freight = row.Own_Freight + row.Vendor_Freight
             /\ row.Party \notin OwnParties =>
                  row.Trips = 0 /\ row.Own_Cars = 0 /\ row.Own_Freight = 0
             /\ row.Party \notin VendorParties =>
                  row.Vendor_Cars = 0 /\ row.Vendor_Freight = 0
    /\ \A k \in 1..Len(tva.final_rows) :
         LET row == tva.final_rows[k]
         IN  /\ row.Total = row.Own + row.Vendor
             /\ row.Total_F = row.Own_F + row.Vendor_F

\* C3 witness: a ledger with a vendor-only row and an own-only row that
\* carry figures, and a row with figures of both sides.
C3_Witness ==
  /\ tva.ran
  /\ \E k \in 1..Len(tva.summary) :
       tva.summary[k].Own_Cars = 0 /\ tva.summary[k].Vendor_Cars > 0
  /\ \E k \in 1..Len(tva.summary) :
       tva.summary[k].Own_Cars > 0 /\ tva.summary[k].Vendor_Cars = 0
  /\ \E k \in 1..Len(tva.summary) :
       tva.summary[k].Own_Cars > 0 /\ tva.summary[k].Vendor_Cars > 0


(***************************************************************************)
(* Pending-CN detection (C4 to C8), under SpecPending                      *)
(***************************************************************************)
\* The trip identifiers of the rows of a frame.
TripIds(rows) == {rows[i].TLHSNo : i \in 1..Len(rows)}

\* A consignment reference that is null, empty or whitespace only.
NoReference(lr) == lr = NULL \/ Strip(lr) = <<>>

\* C4: a trip of month_df is in the candidate frame if and only if its
\* status is exactly Loaded, its consignment reference is null, empty or
\* whitespace only, it was loaded three or more days before today, and its
\* identifier is not in the exclusion list the run loaded.
C4_CandidateSet ==
  pcn.ran =>
    /\ Range(pcn.candidates) \subseteq Range(session.month_df)
    /\ \A r \in Range(session.month_df) :
         r \in Range(pcn.candidates) <=>
           /\ r.TripStatus = <<"L","o","a","d","e","d">>
           /\ NoReference(r.LRNos)
           /\ r.LoadingDate # NaT
           /\ today - r.LoadingDate >= 3
           /\ r.TLHSNo \notin Range(pcn.excluded_trips)

\* C4 witness: a run with a candidate loaded exactly three days ago and a
\* Loaded trip without reference, loaded two days ago, that is no candidate.
C4_Witness ==
  /\ pcn.ran
  /\ \E r \in Range(pcn.candidates) : today - r.LoadingDate = 3
  /\ \E r \in Range(session.month_df) \ Range(pcn.candidates) :
       /\ r.TripStatus = <<"L","o","a","d","e","d">> /\ NoReference(r.LRNos)
       /\ today - r.LoadingDate = 2

\* A consignment that pass 1 matches with trip r: it has a date and a
\* vehicle, the date is the loading date and the vehicles are equal once
\* trimmed and upper-cased.
DateVehicleMatch(r, c) ==
  /\ c.cn_date # NaT /\ c.vehicle_no # NULL /\ r.VehicleNo # NULL
  /\ c.cn_date = r.LoadingDate
  /\ Upper(Strip(c.vehicle_no)) = Upper(Strip(r.VehicleNo))

\* C5: in a run that cross-checked with cn_data, pass 1 removes a candidate
\* exactly when some stored consignment with a date and a vehicle has the
\* trip's loading date and, after trimming and upper-casing, its vehicle.
C5_PassOne ==
  pcn.checked =>
    /\ Range(pcn.after_method1) \subseteq Range(pcn.candidates)
    /\ \A r \in Range(pcn.candidates) :
         r \notin Range(pcn.after_method1) <=>
           \E c \in Range(cn_data) : DateVehicleMatch(r, c)

\* C5 witness: pass 1 removed a trip whose vehicle is stored in another
\* case and with other spaces than the consignment's, and kept a trip.
C5_Witness ==
  /\ pcn.checked
  /\ \E r \in Range(pcn.candidates) \ Range(pcn.after_method1) :
       \E c \in Range(cn_data) :
         DateVehicleMatch(r, c) /\ c.vehicle_no # r.VehicleNo
  /\ pcn.after_method1 # <<>>

\* A consignment that pass 2 matches with trip r: not linked to a trip, an
\* Own Vehicle, with a route and a vehicle, and both equal to the trip's once
\* trimmed and upper-cased.
RouteVehicleMatch(r, c) ==
  /\ (c.tl_no = NULL \/ c.tl_no = <<>>)
  /\ c.vehicle_type = <<"O","w","n"," ","V","e","h","i","c","l","e">>
  /\ c.route # NULL /\ c.route # <<>> /\ r.Route # NULL
  /\ c.vehicle_no # NULL /\ c.vehicle_no # <<>> /\ r.VehicleNo # NULL
  /\ Upper(Strip(c.route)) = Upper(Strip(r.Route))
  /\ Upper(Strip(c.vehicle_no)) = Upper(Strip(r.VehicleNo))

\* C6: in a run that cross-checked with cn_data, pass 2 removes a trip that
\* pass 1 kept exactly when some stored consignment that is not linked to a
\* trip and is an Own Vehicle has the trip's route and the trip's vehicle.
C6_PassTwo ==
  pcn.checked =>
    \A r \in Range(pcn.after_method1) :
      r \notin Range(pcn.pending_cn_df) <=>
        \E c \in Range(cn_data) : RouteVehicleMatch(r, c)

\* C7: every trip a run reports as pending is a trip of month_df with
\* status Loaded, no consignment reference, loaded three or more days before
\* today, and not in the exclusion list the run loaded; each pass only
\* removes trips.
C7_PendingSubset ==
  pcn.ran =>
    /\ Range(pcn.pending_cn_df) \subseteq Range(pcn.after_method1)
    /\ Range(pcn.after_method1) \subseteq Range(pcn.candidates)
    /\ Len(pcn.pending_cn_df) = Cardinality(Range(pcn.pending_cn_df))
    /\ \A r \in Range(pcn.pending_cn_df) :
         /\ r \in Range(session.month_df)
         /\ r.TripStatus = <<"L","o","a","d","e","d">>
         /\ NoReference(r.LRNos)
         /\ r.LoadingDate # NaT /\ today - r.LoadingDate >= 3
         /\ r.TLHSNo \notin Range(pcn.excluded_trips)

\* C7 witness: a run whose passes removed a candidate and kept another.
C7_Witness ==
  /\ pcn.checked
  /\ pcn.pending_cn_df # <<>>
  /\ Len(pcn.pending_cn_df) < Len(pcn.candidates)

\* The pending trips of month_df under an exclusion table, before the sort.
PendingUnder(table) == cross_check(pending_candidates(session.month_df, table)).kept

\* A frame without the row of trip t.
Without(rows, t) == SelectSeq(rows, LAMBDA r : r.TLHSNo # t)

\* C8: with the store reachable, for the exclusion table E of the store and
\* every trip identifier t, the pending frames that the detection can show
\* under E with t added are the pending frames it can show under E, without
\* the trip t.
C8_Monotone ==
  (pcn.ran /\ get_db_connection) =>
    \A t \in TripIds(swift_trip_log) :
      sort_by_loading_date(PendingUnder(InsertExcluded(excluded_pending_trips, t))) =
        {Without(shown, t) : shown \in sort_by_loading_date(PendingUnder(excluded_pending_trips))}

\* C8 witness: two trips are pending, and adding one of them to the
\* exclusion table leaves the other.
C8_Witness ==
  /\ pcn.ran /\ get_db_connection
  /\ Len(PendingUnder(excluded_pending_trips)) = 2
  /\ \E t \in TripIds(PendingUnder(excluded_pending_trips)) :
       Len(PendingUnder(InsertExcluded(excluded_pending_trips, t))) = 1

(***************************************************************************)
(* Excluded trips (C9), under Spec                                         *)
(***************************************************************************)
\* A run of pending-CN detection ends in this step.
DetectionEnds ==
  \/ run.pc \in {"L2128", "L2141"} /\ run'.pc = "idle"
  \/ run.pc = "idle" /\ run'.pc = "idle" /\ pcn' # pcn

\* C9: the run of the script that follows an add_excluded_trip(t) that
\* returned True (no remove_excluded_trip is called in between) does not
\* report the trip t as pending when its pending-CN detection ends.
C9_ExcludedNeverPending ==
  [][(DetectionEnds /\ run.rerun_of.kind = "add") =>
       Strip(run.rerun_of.arg) \notin TripIds(pcn'.pending_cn_df)]_vars

(***************************************************************************)
(* Repeated runs on unchanged inputs (C10), under SpecRepeat               *)
(***************************************************************************)
\* Any table of the trips of the running system, with its consignments or
\* none, with an empty exclusion list or with the first trip excluded.
InitRepeat ==
  \E trips \in Tables(SystemTrips, MaxTrips), cns \in SystemCN \cup {<<>>},
     excluded \in {<<>>, <<TripNo(1)>>} :
    InitWith(trips, cns, excluded, NoTargets)

\* The script and its fragments run again and again, with cache entries
\* that expire in between; the stored rows, the exclusion list, the targets
\* and the current date stay as they are, and the store stays reachable.
NextRepeat ==
  \/ Rerun
  \/ LoadVendor
  \/ LoadTargets
  \/ Sidebar
  \/ PendingCandidates
  \/ CrossCheck
  \/ \E d \in SystemDateInputs \cup {NoDateInput} : TargetVsActualFragment(d[1], d[2])
  \/ PendingCnFragment
  \/ \E fn \in {"triplog", "vendor"} : CacheExpire(fn)

SpecRepeat == InitRepeat /\ [][NextRepeat]_vars

\* The run of the script that starts in this state with what the last run
\* left behind (the cache entries and the state of the widgets), down to its
\* ledger.
NextRun ==
  main_fragments(
    [main_sidebar([main_started(NoClick) EXCEPT !.vendor_df = load_vendor_data(cache)])
       EXCEPT !.excluded_trips = load_excluded_trips(excluded_pending_trips)])

\* C10: when a run of the script or of a fragment has ended, a further run
\* on the same rows, exclusion list, targets, date inputs and current date
\* shows data again and gives the identical ledger (the same rows, values
\* and order), the same page and the identical set of pending trips; so does
\* a further run of the ledger fragment on its own.
C10_Idempotent ==
  (run.pc = "idle" /\ session.live) =>
    /\ load_triplog_data(cache) # EmptyFrame
    /\ NextRun.tva = tva
    /\ main(NextRun) = session
    /\ TripIds(PendingUnder(excluded_pending_trips)) = TripIds(pcn.pending_cn_df)
    /\ target_vs_actual_fragment(session.df, session.vendor_df, session.targets,
                                 tva, session.month) = tva

\* C10 witness: a run showed a ledger, the user set the start of the
\* comparison period, and a further run of the script has computed the
\* ledger with figures again from the cached frames and is at the
\* cross-check of its candidates.
C10_Witness ==
  /\ run.kind = "script" /\ run.pc = "L2141"
  /\ cache.triplog.hit /\ cache.vendor.hit
  /\ run.tva.dates[DateField[3]] = Date(4, 1)
  /\ run.tva.grand_total.Total > 0
  /\ run.pend.candidates # <<>>

(***************************************************************************)
(* The classifier functions (C11 to C17), under SpecClassify               *)
(***************************************************************************)
\* The call of function fn has returned at least once.
Returned1(fn) == classifier.fn = fn /\ classifier.calls >= 1

\* The fixed enumeration of category tags.
CategoryEnumeration ==
  {<<"H","o","n","d","a">>, <<"M"," ","&"," ","M">>, <<"T","o","y","o","t","a">>, <<"S","k","o","d","a">>, <<"G","l","o","v","i","s">>, <<"T","a","t","a">>, <<"J","o","h","n"," ","D","e","e","r","e">>,
   <<"S","p","i","n","n","y">>, <<"J","S","W"," ","M","G">>, <<"R",".","s","a","i">>, <<"M","o","h","a","n"," ","L","o","g","i","s","t","i","c","s">>, <<"S","A","I"," ","A","u","t","o">>, <<"K","w","i","c","k">>,
   <<"M","a","r","k","e","t"," ","L","o","a","d">>, <<"O","t","h","e","r">>}

\* C11: get_client_category returns for every name, a missing and an empty
\* name included, one tag of the 15 category tags; the tag of a missing or
\* empty name is Other; a second call on the same name returns the same tag.
C11_TotalCategory ==
  /\ Cardinality(CategoryEnumeration) = 15
  /\ (classifier.fn = "get_client_category" /\ classifier.calls < 2) =>
       ENABLED GetClientCategory
  /\ Returned1("get_client_category") =>
       /\ classifier.out \in CategoryEnumeration
       /\ (classifier.args[1] = NULL \/ classifier.args[1] = <<>>) =>
            classifier.out = <<"O","t","h","e","r">>
       /\ classifier.calls = 2 => classifier.again = classifier.out

\* C11 witness: the category of a missing name was asked twice and was Other
\* both times.
C11_Witness ==
  /\ classifier.fn = "get_client_category" /\ classifier.calls = 2
  /\ classifier.args[1] = NULL
  /\ classifier.out = <<"O","t","h","e","r">> /\ classifier.again = <<"O","t","h","e","r">>

\* The tags in the order of their rules.
RuleOrder ==
  <<<<"H","o","n","d","a">>, <<"M"," ","&"," ","M">>, <<"T","o","y","o","t","a">>, <<"S","k","o","d","a">>, <<"G","l","o","v","i","s">>, <<"T","a","t","a">>, <<"J","o","h","n"," ","D","e","e","r","e">>,
    <<"M","a","r","k","e","t"," ","L","o","a","d">>, <<"S","p","i","n","n","y">>, <<"J","S","W"," ","M","G">>, <<"R",".","s","a","i">>, <<"M","o","h","a","n"," ","L","o","g","i","s","t","i","c","s">>,
    <<"S","A","I"," ","A","u","t","o">>, <<"K","w","i","c","k">>>>

\* The tags whose rule has a keyword that the upper-cased name contains.
MatchedTags(name) ==
  {category_rules[k][2] : k \in {j \in 1..Len(category_rules) :
     \E kw \in category_rules[j][1] : Contains(kw, Upper(name))}}

\* C12: the category of a name is the tag of the earliest rule, in the order
\* of the rules, that has a keyword the upper-cased name contains, and Other
\* when no rule has one; HONDA with TATA is Honda, MARKET LOAD with SPINNY is
\* Market Load.
C12_FirstMatchWins ==
  (Returned1("get_client_category") /\ classifier.args[1] # NULL) =>
    LET name == classifier.args[1]
        tags == MatchedTags(name)
    IN  /\ tags = {} => classifier.out = <<"O","t","h","e","r">>
        /\ tags # {} =>
             \E k \in 1..Len(RuleOrder) :
               /\ RuleOrder[k] \in tags
               /\ \A j \in 1..(k - 1) : RuleOrder[j] \notin tags
               /\ classifier.out = RuleOrder[k]
        /\ name = <<"H","O","N","D","A"," ","T","A","T","A">> => classifier.out = <<"H","o","n","d","a">>
        /\ name = <<"M","A","R","K","E","T"," ","L","O","A","D"," ","S","P","I","N","N","Y">> => classifier.out = <<"M","a","r","k","e","t"," ","L","o","a","d">>

\* C12 witness: a name with the keywords of the Market Load rule and of the
\* Spinny rule was classified Market Load.
C12_Witness ==
  /\ Returned1("get_client_category")
  /\ classifier.args[1] = <<"M","A","R","K","E","T"," ","L","O","A","D"," ","S","P","I","N","N","Y">>
  /\ Cardinality(MatchedTags(classifier.args[1])) = 2
  /\ classifier.out = <<"M","a","r","k","e","t"," ","L","o","a","d">>

\* The named zones, highest priority first.
ZonePriority == <<<<"N","o","r","t","h">>, <<"E","a","s","t">>, <<"W","e","s","t">>, <<"S","o","u","t","h">>>>

\* The gazetteer list of a named zone.
Gazetteer(zone) ==
  zone_lists[CHOOSE k \in 1..Len(zone_lists) : zone_lists[k][2] = zone][1]

\* The named zones whose list has an entry that the token contains or that
\* contains the token.
ZonesMatched(token) ==
  {z \in Range(ZonePriority) :
     \E e \in Range(Gazetteer(z)) : Contains(e, token) \/ Contains(token, e)}

\* The city token of an input: the input upper-cased and trimmed.
CityToken(city) == Strip(Upper(city))

\* C13: the zone of a city token that matches entries of more than one
\* gazetteer list is the zone of the matching list of highest priority, in
\* the order North, East, West, South; a token that matches a North entry
\* and a South entry is North.
C13_ZonePriority ==
  (Returned1("get_zone") /\ classifier.args[1] # NULL
     /\ CityToken(classifier.args[1]) # <<>>) =>
    LET zones == ZonesMatched(CityToken(classifier.args[1]))
    IN  /\ Cardinality(zones) >= 2 =>
             \E k \in 1..Len(ZonePriority) :
               /\ ZonePriority[k] \in zones
               /\ \A j \in 1..(k - 1) : ZonePriority[j] \notin zones
               /\ classifier.out = ZonePriority[k]
        /\ {<<"N","o","r","t","h">>, <<"S","o","u","t","h">>} \subseteq zones => classifier.out = <<"N","o","r","t","h">>

\* C13 witness: a token that contains a North entry and a South entry was
\* classified North.
C13_Witness ==
  /\ Returned1("get_zone")
  /\ classifier.args[1] = <<"C","h","e","n","n","a","i"," ","-"," ","D","e","l","h","i">>
  /\ {<<"N","o","r","t","h">>, <<"S","o","u","t","h">>} \subseteq ZonesMatched(CityToken(classifier.args[1]))
  /\ classifier.out = <<"N","o","r","t","h">>

\* C14: the zone of an input that is missing, empty or whitespace only is
\* Other or Unknown, never a named zone; the input is upper-cased and
\* trimmed before it is matched.
C14_BlankIsUnknown ==
  Returned1("get_zone") =>
    /\ (classifier.args[1] = NULL \/ Strip(classifier.args[1]) = <<>>) =>
         classifier.out \in {<<"O","t","h","e","r">>, <<"U","n","k","n","o","w","n">>}
    /\ classifier.args[1] = <<" ","D","e","l","h","i"," ">> => classifier.out = <<"N","o","r","t","h">>

\* The entries of the alias table, as they are written.
SPINNY_UP == <<"V","A","L","U","E","D","R","I","V","E"," ","T","E","C","H","N","O","L","O","G","I","E","S"," ","P","R","I","V","A","T","E"," ","L","I","M","I","T","E","D","(","S","P","I","N","N","Y",")"," ","U","P">>
AliasEntries == market_load_parties \cup {SPINNY_UP}

\* C15 as stated: the normalized name differs from the name only when the
\* name, as a whole string, equals an entry of the alias table.
C15_ExactMatch ==
  Returned1("normalize_party_name") =>
    (classifier.out # classifier.args[1] => classifier.args[1] \in AliasEntries)

\* The key a name is looked up with: the name upper-cased and trimmed.
AliasKey(name) == Strip(Upper(name))

\* C15: the normalized name of a name whose key (the name upper-cased and
\* trimmed) equals a Market Load alias is Market Load, of a name whose key
\* equals the SPINNY UP alias the SPINNY name, of a name whose key contains
\* JOHN DEERE the John Deere name; every other name, a missing or empty
\* name and a name that merely contains a Market Load alias or the SPINNY UP
\* alias included, is returned unchanged.
C15_AliasLookup ==
  Returned1("normalize_party_name") =>
    LET name == classifier.args[1]
        market == name # NULL /\ \E e \in market_load_parties : AliasKey(name) = Upper(e)
        spinny == name # NULL /\ AliasKey(name) = SPINNY_UP
        deere == name # NULL /\ Contains(<<"J","O","H","N"," ","D","E","E","R","E">>, AliasKey(name))
    IN  /\ market => classifier.out = <<"M","a","r","k","e","t"," ","L","o","a","d">>
        /\ spinny => classifier.out = <<"V","A","L","U","E","D","R","I","V","E"," ","T","E","C","H","N","O","L","O","G","I","E","S"," ","P","R","I","V","A","T","E"," ","L","I","M","I","T","E","D","(","S","P","I","N","N","Y",")">>
        /\ deere => classifier.out = <<"J","o","h","n"," ","D","e","e","r","e"," ","I","n","d","i","a"," ","P","r","i","v","a","t","e"," ","L","i","m","i","t","e","d">>
        /\ ~(market \/ spinny \/ deere) => classifier.out = name

\* C15 witness: a name that differs from a Market Load alias in case and
\* padding was normalized to Market Load.
C15_Witness ==
  /\ Returned1("normalize_party_name")
  /\ classifier.args[1] = <<" ","G","o","l","d","e","n"," ","T","r","a","n","s","p","o","r","t"," ">>
  /\ classifier.args[1] \notin AliasEntries
  /\ classifier.out = <<"M","a","r","k","e","t"," ","L","o","a","d">>

\* The origin names the city, in any case.
OriginHas(origin, city) == origin # NULL /\ Contains(city, Upper(origin))

\* C16: a consignment billed to MAHINDRA LOGISTICS LTD. maps to the Chakan
\* name when its origin contains CHAKAN, else to the Nashik name when it
\* contains NASHIK, else to the Haridwar name when it contains HARIDWAR, in
\* any case of the letters, and to MAHINDRA LOGISTICS LTD for every other
\* origin, a missing or empty one included; the mapping of any other billing
\* party is the same for every origin.
C16_OriginSplit ==
  Returned1("get_vendor_client_mapping") =>
    LET billing_party == classifier.args[1]
        origin == classifier.args[2]
    IN  /\ billing_party = <<"M","A","H","I","N","D","R","A"," ","L","O","G","I","S","T","I","C","S"," ","L","T","D",".">> =>
             classifier.out =
               IF OriginHas(origin, <<"C","H","A","K","A","N">>) THEN <<"M","a","h","i","n","d","r","a"," ","L","o","g","i","s","t","i","c","s"," ","L","t","d"," ","-"," ","C","h","a","k","a","n">>
               ELSE IF OriginHas(origin, <<"N","A","S","H","I","K">>) THEN <<"M","a","h","i","n","d","r","a"," ","L","o","g","i","s","t","i","c","s"," ","L","t","d"," ","-"," ","N","a","s","h","i","k">>
               ELSE IF OriginHas(origin, <<"H","A","R","I","D","W","A","R">>) THEN <<"M","a","h","i","n","d","r","a"," ","L","o","g","i","s","t","i","c","s"," ","L","t","d"," ","-"," ","H","a","r","i","d","w","a","r">>
               ELSE <<"M","A","H","I","N","D","R","A"," ","L","O","G","I","S","T","I","C","S"," ","L","T","D">>
        /\ billing_party # <<"M","A","H","I","N","D","R","A"," ","L","O","G","I","S","T","I","C","S"," ","L","T","D",".">> =>
             \A o \in OriginInputs :
               get_vendor_client_mapping(billing_party, o) = classifier.out

\* C16 witness: the split party with origin 'Chakan, Pune' was mapped to
\* the Chakan name.
C16_Witness ==
  /\ Returned1("get_vendor_client_mapping")
  /\ classifier.args = <<<<"M","A","H","I","N","D","R","A"," ","L","O","G","I","S","T","I","C","S"," ","L","T","D",".">>, <<"C","h","a","k","a","n",","," ","P","u","n","e">>>>
  /\ classifier.out = <<"M","a","h","i","n","d","r","a"," ","L","o","g","i","s","t","i","c","s"," ","L","t","d"," ","-"," ","C","h","a","k","a","n">>

\* The billing party is a key of the allow-list.
OnAllowList(b) == \E i \in 1..Len(vendor_mappings) : vendor_mappings[i][1] = b

\* The mapped party is the name the allow-list gives the billing party.
IsListedName(b, party) ==
  \E i \in 1..Len(vendor_mappings) :
    vendor_mappings[i][1] = b /\ vendor_mappings[i][2] = party

\* C17 as stated: a billing-party string on the allow-list maps to its
\* listed name, every other billing-party string to Market Load.
C17_AllowListOrMarketLoad ==
  (Returned1("get_vendor_client_mapping") /\ classifier.args[1] # NULL) =>
    /\ OnAllowList(classifier.args[1]) =>
         IsListedName(classifier.args[1], classifier.out)
    /\ ~OnAllowList(classifier.args[1]) => classifier.out = <<"M","a","r","k","e","t"," ","L","o","a","d">>

\* C17: a billing-party string on the allow-list maps to its listed name
\* (Glovis India Pvt Ltd - KIA to itself, of category Glovis); every other
\* non-empty billing-party string, except the origin-split party, maps to
\* Market Load; an empty or missing billing party maps to no party.
C17_AllowList ==
  Returned1("get_vendor_client_mapping") =>
    LET b == classifier.args[1]
    IN  /\ (b # NULL /\ OnAllowList(b)) => IsListedName(b, classifier.out)
        /\ (b # NULL /\ b # <<>> /\ b # <<"M","A","H","I","N","D","R","A"," ","L","O","G","I","S","T","I","C","S"," ","L","T","D",".">> /\ ~OnAllowList(b)) =>
             classifier.out = <<"M","a","r","k","e","t"," ","L","o","a","d">>
        /\ (b = NULL \/ b = <<>>) => classifier.out = NULL
        /\ b = <<"G","l","o","v","i","s"," ","I","n","d","i","a"," ","P","v","t"," ","L","t","d"," ","-"," ","K","I","A">> =>
             /\ classifier.out = <<"G","l","o","v","i","s"," ","I","n","d","i","a"," ","P","v","t"," ","L","t","d"," ","-"," ","K","I","A">>
             /\ get_client_category(classifier.out) = <<"G","l","o","v","i","s">>

\* C17 witness: a billing party that is not on the allow-list was mapped to
\* Market Load.
C17_Witness ==
  /\ Returned1("get_vendor_client_mapping")
  /\ classifier.args[1] = <<"A","C","M","E"," ","C","a","r","r","i","e","r","s">>
  /\ ~OnAllowList(classifier.args[1])
  /\ classifier.out = <<"M","a","r","k","e","t"," ","L","o","a","d">>

(***************************************************************************)
(* Vendor activity and test consignments (C18, C19)                        *)
(***************************************************************************)
\* The consignment number begins with TEST.
TestNumbered(c) == c.cn_no # NULL /\ StartsWith(c.cn_no, <<"T","E","S","T">>)

\* Vendor activity as C18 states it: billed to the R.sai party and not
\* linked to a trip, or billed to another party with class Hire Vehicle.
ClaimedActivity(c) ==
  \/ (c.billing_party = <<"R",".","s","a","i"," ","L","o","g","i","s","t","i","c","s"," ","I","n","d","i","a"," ","P","v","t","."," ","L","t","d",".">> /\ c.tl_no = NULL)
  \/ (c.billing_party # NULL /\ c.billing_party # <<"R",".","s","a","i"," ","L","o","g","i","s","t","i","c","s"," ","I","n","d","i","a"," ","P","v","t","."," ","L","t","d",".">>
       /\ c.vehicle_type = <<"H","i","r","e"," ","V","e","h","i","c","l","e">>)

\* The stored consignments of the primary period that are vendor activity
\* as C18 states it.
ClaimedVendor ==
  SelectSeq(cn_data, LAMBDA c : InPrimary(c.cn_date) /\ ClaimedActivity(c))

\* C18 as stated (under SpecLedger): the vendor figures are the sums over
\* exactly the consignments that are vendor activity.
C18_ActivityFilter ==
  tva.ran =>
    /\ tva.grand_total.Vendor = Total(ClaimedVendor, "qty")
    /\ tva.grand_total.Vendor_F = Total(ClaimedVendor, "basic_freight")

\* Those of them that have a billing party and no TEST number.
CountedVendor ==
  SelectSeq(ClaimedVendor, LAMBDA c : ~TestNumbered(c) /\ c.billing_party # <<>>)

\* C18 (under SpecLedger): among the consignments that have a billing party
\* and no TEST number, exactly those billed to the R.sai party and not linked
\* to a trip, and those billed to another party with class Hire Vehicle,
\* are counted in the vendor figures: the vendor figures of every party and
\* of the grand total are the sums over those consignments of the period.
C18_ActivityFilterNamed ==
  tva.ran =>
    /\ \A k \in 1..Len(tva.summary) :
         LET row == tva.summary[k]
             theirs == SelectSeq(CountedVendor, LAMBDA c : VendorParty(c) = row.Party)
         IN  /\ row.Vendor_Cars = Total(theirs, "qty")
             /\ row.Vendor_Freight = Total(theirs, "basic_freight")
    /\ \A c \in Range(CountedVendor) : VendorParty(c) \in LedgerParties
    /\ tva.grand_total.Vendor = Total(CountedVendor, "qty")
    /\ tva.grand_total.Vendor_F = Total(CountedVendor, "basic_freight")

\* C18 witness: of two R.sai consignments of the period the one that is not
\* linked to a trip makes up the vendor figures, the linked one adds nothing.
C18_Witness ==
  /\ tva.ran
  /\ \E c \in Range(cn_data), d \in Range(cn_data) :
       /\ c.billing_party = RSAI /\ c.tl_no = NULL /\ InPrimary(c.cn_date)
       /\ d.billing_party = RSAI /\ d.tl_no # NULL /\ InPrimary(d.cn_date)
       /\ d.basic_freight > 0
       /\ tva.grand_total.Vendor_F = c.basic_freight

\* The keys of a consignment that the two passes compare with a trip's keys.
PassOneKeyed(r, c) ==
  /\ c.cn_date # NaT /\ c.vehicle_no # NULL
  /\ lookup_key(r) = KeyJoin(DateStr(c.cn_date), UpperStrip(c.vehicle_no))
PassTwoKeyed(r, c) ==
  /\ (c.tl_no = NULL \/ c.tl_no = <<>>)
  /\ c.vehicle_type = <<"O","w","n"," ","V","e","h","i","c","l","e">>
  /\ c.route # NULL /\ c.route # <<>>
  /\ c.vehicle_no # NULL /\ c.vehicle_no # <<>>
  /\ route_vehicle_key(r) = KeyJoin(UpperStrip(c.route), UpperStrip(c.vehicle_no))

\* C19 (under SpecPending): a consignment whose number begins with TEST
\* adds to no vendor figure, and every trip that a pass removed from the
\* pending trips has the key of a consignment whose number does not begin
\* with TEST.
C19_TestNeverCounts ==
  /\ tva.ran =>
       /\ tva.grand_total.Vendor = Total(CountedVendor, "qty")
       /\ tva.grand_total.Vendor_F = Total(CountedVendor, "basic_freight")
  /\ pcn.checked =>
       /\ \A r \in Range(pcn.candidates) \ Range(pcn.after_method1) :
            \E c \in Range(cn_data) : ~TestNumbered(c) /\ PassOneKeyed(r, c)
       /\ \A r \in Range(pcn.after_method1) \ Range(pcn.pending_cn_df) :
            \E c \in Range(cn_data) : ~TestNumbered(c) /\ PassTwoKeyed(r, c)

(***************************************************************************)
(* Category subtotals (C20), under SpecSubtotal                            *)
(***************************************************************************)
\* The party rows and the subtotal rows of a category in the table.
MemberRows(category) ==
  SelectSeq(tva.final_rows, LAMBDA row : ~row.is_total /\ row.category = category)
SubtotalRows(category) ==
  SelectSeq(tva.final_rows, LAMBDA row : row.is_total /\ row.category = category)

\* The sum of the stored targets of the parties of rows.
RECURSIVE StoredTargets(_)
StoredTargets(rows) ==
  IF rows = <<>> THEN 0
  ELSE (IF Head(rows).Client \in DOMAIN sob_targets THEN sob_targets[Head(rows).Client]
        ELSE 0) + StoredTargets(Tail(rows))

\* C20: a category with exactly one party has no subtotal row; a category
\* with two or more parties has exactly one, whose own, vendor, total and
\* comparison figures are the sums of the figures of its parties and whose
\* target is the sum of the stored targets of its parties, blank when that
\* sum is zero.
C20_CategorySubtotals ==
  tva.ran =>
    \A category \in CategoryEnumeration :
      LET members == MemberRows(category)
          subtotals == SubtotalRows(category)
      IN  /\ Len(members) <= 1 => subtotals = <<>>
          /\ Len(members) >= 2 =>
               /\ Len(subtotals) = 1
               /\ subtotals[1].Own = SumCol(members, "Own")
               /\ subtotals[1].Vendor = SumCol(members, "Vendor")
               /\ subtotals[1].Total = SumCol(members, "Total")
               /\ subtotals[1].Own_F = SumCol(members, "Own_F")
               /\ subtotals[1].Vendor_F = SumCol(members, "Vendor_F")
               /\ subtotals[1].Total_F = SumCol(members, "Total_F")
               /\ subtotals[1].Cars_Comp = SumCol(members, "Cars_Comp")
               /\ subtotals[1].Freight_Comp = SumCol(members, "Freight_Comp")
               /\ subtotals[1].Target_SQR =
                    IF StoredTargets(members) = 0 THEN <<>>
                    ELSE <<StoredTargets(members)>>

\* C20 witness: a table with a category of one party and no subtotal row,
\* and a category of two parties with stored targets whose subtotal row
\* shows the sum of the two targets and comparison figures.
C20_Witness ==
  /\ tva.ran
  /\ \E category \in CategoryEnumeration :
       Len(MemberRows(category)) = 1 /\ SubtotalRows(category) = <<>>
  /\ \E category \in CategoryEnumeration :
       /\ Len(MemberRows(category)) = 2
       /\ \A i \in 1..2 : MemberRows(category)[i].Target_SQR # <<>>
       /\ Len(SubtotalRows(category)) = 1
       /\ SubtotalRows(category)[1].Target_SQR = <<15>>
       /\ SubtotalRows(category)[1].Own = 5

(***************************************************************************)
(* The order of the table rows (C21, C22), under SpecSubtotal              *)
(***************************************************************************)
\* The position at which a party is first met among the stored trips of the
\* primary period.
FirstMet(party) ==
  CHOOSE i \in 1..Len(PrimaryTrips) :
    /\ DisplayParty(PrimaryTrips[i]) = party
    /\ \A j \in 1..(i - 1) : DisplayParty(PrimaryTrips[j]) # party

\* C21 as stated: two party rows of one category whose parties have trips in
\* the primary period stand in the order in which the parties were first
\* met among those trips.
C21_EncounterOrder ==
  tva.ran =>
    \A i \in 1..Len(PartyRows), j \in 1..Len(PartyRows) :
      (/\ i < j
       /\ PartyRows[i].category = PartyRows[j].category
       /\ PartyRows[i].Client \in OwnParties
       /\ PartyRows[j].Client \in OwnParties)
      => FirstMet(PartyRows[i].Client) < FirstMet(PartyRows[j].Client)

\* C21: within each category the party rows stand in ascending order of the
\* party name.
C21_NameOrder ==
  tva.ran =>
    \A i \in 1..Len(PartyRows), j \in 1..Len(PartyRows) :
      (i < j /\ PartyRows[i].category = PartyRows[j].category)
      => StrLess(PartyRows[i].Client, PartyRows[j].Client)

\* C21 witness: two parties of one category whose rows stand in the order
\* of their names, the second one met first among the trips.
C21_Witness ==
  /\ tva.ran
  /\ \E i \in 1..Len(PartyRows), j \in 1..Len(PartyRows) :
       /\ i < j
       /\ PartyRows[i].category = PartyRows[j].category
       /\ PartyRows[i].Client \in OwnParties
       /\ PartyRows[j].Client \in OwnParties
       /\ FirstMet(PartyRows[j].Client) < FirstMet(PartyRows[i].Client)

\* The sequence of categories that C22 names.
ClaimedSequence ==
  <<<<"H","o","n","d","a">>, <<"M"," ","&"," ","M">>, <<"T","o","y","o","t","a">>, <<"S","k","o","d","a">>, <<"G","l","o","v","i","s">>, <<"T","a","t","a">>, <<"J","o","h","n"," ","D","e","e","r","e">>,
    <<"S","p","i","n","n","y">>, <<"J","S","W"," ","M","G">>, <<"R",".","s","a","i">>, <<"M","o","h","a","n"," ","L","o","g","i","s","t","i","c","s">>, <<"S","A","I"," ","A","u","t","o">>, <<"K","w","i","c","k">>,
    <<"M","a","r","k","e","t"," ","L","o","a","d">>, <<"O","t","h","e","r">>>>
Place(category) == CHOOSE k \in 1..Len(ClaimedSequence) : ClaimedSequence[k] = category

\* C22: the table ends with its only grand-total row; before it the rows
\* of a category are contiguous, the party rows before the one subtotal row
\* if there is one, and the categories follow the fixed sequence.
C22_RowOrder ==
  tva.ran =>
    LET rows == tva.final_rows
        n == Len(rows)
    IN  /\ n >= 1
        /\ rows[n].Client = <<"G","r","a","n","d"," ","T","o","t","a","l">> /\ rows[n].is_total
        /\ \A i \in 1..(n - 1) : rows[i].category \in Range(ClaimedSequence)
        /\ \A i \in 1..(n - 1), j \in 1..(n - 1) :
             i < j =>
               /\ Place(rows[i].category) <= Place(rows[j].category)
               /\ rows[i].category = rows[j].category => ~rows[i].is_total

\* C22 witness: a table with the party rows and the subtotal row of one
\* category, then rows of a later category, the R.sai row before the
\* Market Load row, and the grand-total row.
C22_Witness ==
  /\ tva.ran
  /\ \E i \in 1..Len(tva.final_rows), j \in 1..Len(tva.final_rows) :
       /\ i + 1 < j
       /\ tva.final_rows[i].category = <<"H","o","n","d","a">> /\ ~tva.final_rows[i].is_total
       /\ tva.final_rows[i + 1].category = <<"H","o","n","d","a">> /\ ~tva.final_rows[i + 1].is_total
       /\ tva.final_rows[i + 2].category = <<"H","o","n","d","a">> /\ tva.final_rows[i + 2].is_total
       /\ tva.final_rows[j].category = <<"R",".","s","a","i">>
       /\ tva.final_rows[j + 1].category = <<"M","a","r","k","e","t"," ","L","o","a","d">>
       /\ Len(tva.final_rows) = j + 2

(***************************************************************************)
(* The comparison period (C23, C24), under SpecLedger                      *)
(***************************************************************************)
\* A date of the comparison period of the last ledger run.
InCompare(d) ==
  d # NaT /\ d >= tva.dates.compare_month /\ d <= tva.dates.compare_till_date

\* The stored trips and vendor-activity consignments of the comparison
\* period that have a party.
CompareTrips ==
  SelectSeq(swift_trip_log, LAMBDA r :
    InCompare(r.LoadingDate) /\ HasName(DisplayParty(r)))
CompareVendor ==
  SelectSeq(cn_data, LAMBDA c :
    IsVendorActivity(c) /\ InCompare(c.cn_date) /\ HasName(VendorParty(c)))

\* C23: the comparison cars and freight of every ledger row are the total
\* cars and total freight (own plus vendor) of the row's party over the
\* comparison period, zero when the party has nothing in that period.
C23_SameGrouping ==
  tva.ran =>
    \A k \in 1..Len(tva.summary) :
      LET row == tva.summary[k]
          own == SelectSeq(CompareTrips, LAMBDA r : DisplayParty(r) = row.Party)
          vendor == SelectSeq(CompareVendor, LAMBDA c : VendorParty(c) = row.Party)
      IN  /\ row.Compare_Cars = Total(own, "CarQty") + Total(vendor, "qty")
          /\ row.Compare_Freight = Total(own, "Freight") + Total(vendor, "basic_freight")

\* C24: the shortfall is the grand-total freight of the primary period
\* minus the total freight of the comparison period over all parties that
\* are active in the comparison period.
C24_Shortfall ==
  tva.ran =>
    tva.shortfall = tva.grand_total.Total_F
                    - (Total(CompareTrips, "Freight") + Total(CompareVendor, "basic_freight"))

(***************************************************************************)
(* Writes to the store (C25, C30), under SpecStore                         *)
(***************************************************************************)
\* The call failed before its commit took effect: there was no connection,
\* or the statement or the commit raised.
FailedBeforeCommit ==
  write.call.result = "False" /\ write.call.failed_at \in {"connect", "execute", "commit"}

\* C25: a call of save_target, add_excluded_trip or remove_excluded_trip
\* that is still running, or that failed before its commit took effect, has
\* returned False in the latter case and has changed neither table; a call
\* that has returned has returned True or False, and the tables hold its
\* whole statement or nothing of it.
C25_FailedWriteChangesNothing ==
  /\ write.stage \in {"connected", "executed"} => persisted = write.call.before
  /\ write.stage = "returned" =>
       /\ write.call.result \in {"True", "False"}
       /\ write.call.result = "False" => write.call.failed_at # ""
       /\ FailedBeforeCommit => persisted = write.call.before
       /\ persisted \in {write.call.before,
                         statement(write.call.fn, write.call.arg, write.call.before)}

\* C25 witness: add_excluded_trip of a trip that is not excluded has run
\* its statement, failed at the commit and returned False, and the
\* exclusion table is as it was.
C25_Witness ==
  /\ write.stage = "returned"
  /\ write.call.fn = "add_excluded_trip"
  /\ write.call.result = "False" /\ write.call.failed_at = "commit"
  /\ Strip(write.call.arg) \notin Range(write.call.before.excluded)
  /\ statement(write.call.fn, write.call.arg, write.call.before) # write.call.before
  /\ excluded_pending_trips = write.call.before.excluded

\* C30: when add_excluded_trip(t) of a t that is not in the table and then
\* remove_excluded_trip(t) have both returned True, the table holds the
\* trips it held before the add; and add_excluded_trip of a t that is in
\* the table leaves the table as it is.
C30_AddRemoveRoundTrip ==
  write.stage = "returned" =>
    /\ (/\ write.call.fn = "remove_excluded_trip" /\ write.call.result = "True"
        /\ write.prev.fn = "add_excluded_trip" /\ write.prev.result = "True"
        /\ write.prev.arg = write.call.arg
        /\ write.call.arg \notin Range(write.prev.before.excluded))
       => Range(excluded_pending_trips) = Range(write.prev.before.excluded)
    /\ (/\ write.call.fn = "add_excluded_trip" /\ write.call.result = "True"
        /\ write.call.arg \in Range(write.call.before.excluded))
       => excluded_pending_trips = write.call.before.excluded

(***************************************************************************)
(* One snapshot per run (C27), under SpecSnapshot                          *)
(***************************************************************************)
\* C27: the exclusion list that pending-CN detection applied is the list
\* the sidebar of the same run shows, and the targets of the table rows are
\* the targets the run loaded.
C27_OneSnapshot ==
  session.live =>
    /\ pcn.ran => pcn.excluded_trips = session.excluded_trips
    /\ tva.ran =>
         \A k \in 1..Len(PartyRows) :
           PartyRows[k].Target_SQR =
             IF TargetGet(session.targets, PartyRows[k].Client) # 0
             THEN <<TargetGet(session.targets, PartyRows[k].Client)>> ELSE <<>>

(***************************************************************************)
(* The unreachable store (C26, C28), under Spec                            *)
(***************************************************************************)
\* C26: a loader that finds the store unreachable yields its empty result,
\* and pending-CN detection shows trips only when its run did the
\* cross-check with the consignments.
C26_SourceUnavailable ==
  /\ ~get_db_connection =>
       /\ load_triplog_data_uncached = EmptyFrame
       /\ load_vendor_data_uncached = EmptyFrame
       /\ load_excluded_trips(excluded_pending_trips) = <<>>
       /\ load_targets(sob_targets) = NoTargets
  /\ (pcn.ran /\ pcn.pending_cn_df # <<>>) => pcn.checked

\* C28: while the store is reachable, the frame the next run gets from
\* load_triplog_data or load_vendor_data is empty only when the store
\* yields no rows: the empty result of a failed load is not kept.
C28_FailedLoadNotServed ==
  get_db_connection =>
    /\ load_triplog_data(cache) = EmptyFrame => swift_trip_log = <<>>
    /\ load_vendor_data(cache) = EmptyFrame => VendorRows(cn_data) = <<>>

(***************************************************************************)
(* The gazetteer lists (C29), under SpecClassify                           *)
(***************************************************************************)
\* C29: get_zone of an entry of a gazetteer list is the zone of that list.
C29_GazetteerConsistent ==
  Returned1("get_zone") =>
    \A zone \in Range(ZonePriority) :
      classifier.args[1] \in Range(Gazetteer(zone)) => classifier.out = zone

====
